---- MODULE Spec2Model ----
(***************************************************************************)
(* A model of the Brewin v3 interpreter (interpreterv3.py, classv3.py,     *)
(* objectv3.py, env_v3.py).  The tree-walking evaluator is modelled as a   *)
(* small-step machine: every activation of a Python method is one frame of *)
(* `stack`, and the (status, value) tuple a Python method returns is kept  *)
(* in `ret` until the caller's activation reads it.                        *)
(***************************************************************************)
EXTENDS Integers, Sequences, FiniteSets, TLC

VARIABLES
    phase,        \* "idle" before Interpreter.run, "running", "done"
    pending,      \* the programs the caller will hand to run, in order
    again,        \* whether run was called on this Interpreter before
    class_index,  \* Interpreter.class_index: class name -> ClassDef
    template_class_index, \* Interpreter.template_class_index
    type_manager, \* Interpreter.type_manager: type name -> supertype name
    constructed,  \* the class names ClassDef.__init__ was called with
    objs,         \* every ObjectDef built so far, indexed by identity
    envs,         \* the EnvironmentManager of every active call_method
    stack,        \* the Python call stack of the evaluator
    ret,          \* the tuple returned by the activation that finished last
    error,        \* the ErrorType interpreter.error() was called with
    output        \* the lines the run has given to interpreter.output()

\* what a class definition or a generic instantiation may change
registry == <<class_index, template_class_index, type_manager, constructed>>

\* what only a call of run changes
session == <<registry, pending, again>>

vars == <<phase, session, objs, envs, stack, ret, error, output>>

(***************************************************************************)
(* Bounds of the model.                                                    *)
(***************************************************************************)
MaxNest == 2        \* nesting depth of the generated statement bodies
MaxOutput == 4      \* lines of output a run may produce
MaxObjects == 7     \* ObjectDef levels a run may build
MaxCallDepth == 5   \* nested call_method activations
MaxNesting == 4     \* instantiate_class calls that have not returned

(***************************************************************************)
(* intbase.InterpreterBase keywords and ObjectDef statuses.                *)
(***************************************************************************)
INT_DEF == "int"
STRING_DEF == "string"
BOOL_DEF == "bool"
NULL_DEF == "null"
NOTHING_DEF == "nothing"
VOID_DEF == "void"
ME_DEF == "me"
SUPER_DEF == "super"
MAIN_CLASS_DEF == "main"
MAIN_FUNC_DEF == "main"
INPUT_STRING_DEF == "inputs"
INPUT_INT_DEF == "inputi"
TYPE_CONCAT_CHAR == "@"
EXCEPTION_VARIABLE_DEF == "exception"

STATUS_PROCEED == "PROCEED"
STATUS_RETURN == "RETURN"
STATUS_EXCEPTION == "EXCEPTION"

NoClass == "<none>"   \* Python None where a class / type name is expected
NoObj == 0            \* Python None where an ObjectDef is expected

(***************************************************************************)
(* type_valuev3: Value, create_value, create_default_value.                *)
(* A Value is [t: type name, v: payload, n: payload is None].              *)
(***************************************************************************)
Value(t, v) == [t |-> t, v |-> v, n |-> FALSE]
NullValue(t) == [t |-> t, v |-> 0, n |-> TRUE]
NoValue == [t |-> NoClass, v |-> 0, n |-> TRUE]   \* None in place of a Value

IsNone(val) == val.t = NoClass
is_null(val) == val.n
is_typeless_null(val) == val.n /\ val.t = NULL_DEF

ValEq(a, b) == a.t = b.t /\ a.n = b.n /\ (a.n \/ a.v = b.v)

IntToken == ("0" :> 0) @@ ("1" :> 1) @@ ("2" :> 2) @@ ("5" :> 5) @@ ("7" :> 7)
StrToken == ("\"e\"" :> "e") @@ ("\"e2\"" :> "e2") @@ ("\"in\"" :> "in")
            @@ ("\"deep\"" :> "deep") @@ ("\"a\"" :> "a") @@ ("\"end\"" :> "end")
            @@ ("\"k\"" :> "k") @@ ("\"A\"" :> "A") @@ ("\"B\"" :> "B")
            @@ ("\"C\"" :> "C") @@ ("\"go\"" :> "go") @@ ("\"ok\"" :> "ok")

create_value(tok) ==
    IF tok = "true" THEN Value(BOOL_DEF, TRUE)
    ELSE IF tok = "false" THEN Value(BOOL_DEF, FALSE)
    ELSE IF tok = NULL_DEF THEN NullValue(NULL_DEF)
    ELSE IF tok \in DOMAIN IntToken THEN Value(INT_DEF, IntToken[tok])
    ELSE IF tok \in DOMAIN StrToken THEN Value(STRING_DEF, StrToken[tok])
    ELSE NoValue

create_default_value(t) ==
    IF t = BOOL_DEF THEN Value(BOOL_DEF, FALSE)
    ELSE IF t = STRING_DEF THEN Value(STRING_DEF, "")
    ELSE IF t = INT_DEF THEN Value(INT_DEF, 0)
    ELSE NullValue(t)

(***************************************************************************)
(* type_valuev3.TypeManager.  tm maps every registered type name to its    *)
(* supertype name (NoClass when it has none).                              *)
(***************************************************************************)
primitive_types == {INT_DEF, STRING_DEF, BOOL_DEF}

TypeManager == [t \in primitive_types \cup {NULL_DEF} |-> NoClass]

add_class_type(tm, class_name, superclass_name) ==
    [t \in DOMAIN tm \cup {class_name} |->
        IF t = class_name THEN superclass_name ELSE tm[t]]

is_valid_type(tm, typename) == typename \in DOMAIN tm

RECURSIVE SubtypeWalk(_, _, _)
SubtypeWalk(tm, suspected_supertype, cur_type) ==
    IF suspected_supertype = cur_type THEN TRUE
    ELSE IF cur_type \notin DOMAIN tm THEN FALSE
    ELSE IF tm[cur_type] = NoClass THEN FALSE
    ELSE SubtypeWalk(tm, suspected_supertype, tm[cur_type])

is_a_subtype(tm, suspected_supertype, suspected_subtype) ==
    /\ is_valid_type(tm, suspected_supertype)
    /\ is_valid_type(tm, suspected_subtype)
    /\ SubtypeWalk(tm, suspected_supertype, suspected_subtype)

check_type_compatibility(tm, typea, typeb, for_assignment) ==
    IF ~is_valid_type(tm, typea) \/ ~is_valid_type(tm, typeb) THEN FALSE
    ELSE IF is_a_subtype(tm, typea, typeb) THEN TRUE
    ELSE IF ~for_assignment /\ is_a_subtype(tm, typeb, typea) THEN TRUE
    ELSE IF typea = typeb THEN TRUE
    ELSE IF typea \in primitive_types \/ typeb \in primitive_types THEN FALSE
    ELSE IF typea = NULL_DEF \/ typeb = NULL_DEF THEN TRUE
    ELSE FALSE

(***************************************************************************)
(* classv3: VariableDef, MethodDef, ClassDef.                              *)
(* A class declaration of the parsed program is                            *)
(*   [name, inherits, fields: <<[type, name, has_init, init]>>,            *)
(*    methods: <<[return_type, method_name, formal_params, code]>>].       *)
(***************************************************************************)
VariableDef(var_type, var_name, value) ==
    [type |-> var_type, name |-> var_name, value |-> value]

NoVarDef == VariableDef(NoClass, "", NoValue)   \* None in place of a VariableDef
IsNoVarDef(var_def) == var_def.type = NoClass

set_value(var_def, value) == [var_def EXCEPT !.value = value]

MethodDef(method_source) ==
    [method_name |-> method_source.method_name,
     return_type |-> IF method_source.return_type = VOID_DEF
                     THEN NOTHING_DEF ELSE method_source.return_type,
     formal_params |-> [i \in DOMAIN method_source.formal_params |->
                          VariableDef(method_source.formal_params[i].type,
                                      method_source.formal_params[i].name,
                                      NoValue)],
     code |-> method_source.code]

(***************************************************************************)
(* Compound type names: name.split(TYPE_CONCAT_CHAR) and                   *)
(* TYPE_CONCAT_CHAR.join(parts) of Python.                                 *)
(***************************************************************************)
RECURSIVE Join(_)
Join(parts) ==
    IF Len(parts) = 1 THEN parts[1]
    ELSE parts[1] \o TYPE_CONCAT_CHAR \o Join(Tail(parts))

\* the parts of name from position start on, the characters before
\* position i holding no separator
RECURSIVE SplitFrom(_, _, _)
SplitFrom(name, start, i) ==
    IF i > Len(name) THEN <<SubSeq(name, start, Len(name))>>
    ELSE IF SubSeq(name, i, i) = TYPE_CONCAT_CHAR
    THEN <<SubSeq(name, start, i - 1)>> \o SplitFrom(name, i + 1, i + 1)
    ELSE SplitFrom(name, start, i + 1)

Split(name) == SplitFrom(name, 1, 1)

(***************************************************************************)
(* The registries a ClassDef under construction reads and writes:          *)
(* interpreter.class_index, .template_class_index, .type_manager, the      *)
(* names ClassDef.__init__ was called with so far, the number of           *)
(* instantiate_class calls that have not returned, and the error raised.   *)
(***************************************************************************)
Registry(index, tindex, tm, log) ==
    [class_index |-> index, template_class_index |-> tindex,
     type_manager |-> tm, constructed |-> log, nesting |-> 0,
     err |-> "none"]

Raise(reg, kind) == [reg EXCEPT !.err = kind]

\* None in place of a ClassDef
NoClassDef ==
    [name |-> NoClass, super_class |-> NoClass, fields |-> <<>>,
     methods |-> <<>>]

\* class_index[class_name] = class_def
\* faulty variant: a name that has an entry keeps it
RegisterKept(reg, class_name, class_def) ==
    [reg EXCEPT !.class_index =
        [c \in DOMAIN @ \cup {class_name} |->
            IF c \in DOMAIN @ THEN @[c] ELSE class_def]]

Register(reg, class_name, class_def) ==
    [reg EXCEPT !.class_index =
        [c \in DOMAIN @ \cup {class_name} |->
            IF c = class_name THEN class_def ELSE @[c]]]

\* faulty variant: nothing is registered before the body is resolved
RegisterNothing(reg, type_name) == reg

\* "Add it to the class_index immediately to avoid infinite loops"
RegisterPlaceholder(reg, type_name) ==
    [Register(reg, type_name, NoClassDef) EXCEPT !.type_manager =
        add_class_type(@, type_name, NoClass)]

(***************************************************************************)
(* TemplateClassDef.__replace and __validate over the syntax trees         *)
(***************************************************************************)
\* __replace on a string
ReplaceString(code, template_to_actual) ==
    LET joined(code_parts) ==
            IF Len(code_parts) > 1
            THEN Join([i \in DOMAIN code_parts |->
                         IF code_parts[i] \in DOMAIN template_to_actual
                         THEN template_to_actual[code_parts[i]]
                         ELSE code_parts[i]])
            ELSE code
    IN IF code \in DOMAIN template_to_actual THEN template_to_actual[code]
       ELSE joined(Split(code))

\* __replace on a list of (type name) or (type name value) declarations
ReplaceVarDefs(var_defs, template_to_actual) ==
    [i \in DOMAIN var_defs |->
        IF "init" \in DOMAIN var_defs[i]
        THEN [type |-> ReplaceString(var_defs[i].type, template_to_actual),
              name |-> ReplaceString(var_defs[i].name, template_to_actual),
              has_init |-> var_defs[i].has_init,
              init |-> ReplaceString(var_defs[i].init, template_to_actual)]
        ELSE [type |-> ReplaceString(var_defs[i].type, template_to_actual),
              name |-> ReplaceString(var_defs[i].name, template_to_actual)]]

\* __replace on a statement or an expression
RECURSIVE replace(_, _)
replace(code, template_to_actual) ==
    LET sub(c) == replace(c, template_to_actual)
        each(list) == [i \in DOMAIN list |-> sub(list[i])]
        str(s) == ReplaceString(s, template_to_actual)
    IN IF "op" \in DOMAIN code
       THEN CASE code.op = "atom" -> [code EXCEPT !.tok = str(@)]
              [] code.op = "new" -> [code EXCEPT !.class = str(@)]
              [] code.op = "call" ->
                    [code EXCEPT !.obj = str(@), !.method = str(@),
                                 !.args = each(@)]
              [] "a2" \notin DOMAIN code ->
                    [code EXCEPT !.a1 = sub(@)]
              [] OTHER ->
                    [code EXCEPT !.a1 = sub(@),
                                 !.a2 = sub(@)]
       ELSE CASE code.tok = "begin" -> [code EXCEPT !.stmts = each(@)]
              [] code.tok = "let" ->
                    [code EXCEPT
                       !.vars = ReplaceVarDefs(@, template_to_actual),
                       !.stmts = each(@)]
              [] code.tok = "set" ->
                    [code EXCEPT !.name = str(@),
                                 !.expr = sub(@)]
              [] code.tok = "if" ->
                    [code EXCEPT !.cond = sub(@),
                                 !.then = sub(@),
                                 !.else = sub(@)]
              [] code.tok = "while" ->
                    [code EXCEPT !.cond = sub(@),
                                 !.body = sub(@)]
              [] code.tok = "call" ->
                    [code EXCEPT !.obj = str(@), !.method = str(@),
                                 !.args = each(@)]
              [] code.tok \in {"return", "throw"} ->
                    [code EXCEPT !.expr = sub(@)]
              [] code.tok = "try" ->
                    [code EXCEPT !.block = sub(@),
                                 !.catch = sub(@)]
              [] code.tok = "print" -> [code EXCEPT !.exprs = each(@)]
              [] code.tok \in {INPUT_STRING_DEF, INPUT_INT_DEF} ->
                    [code EXCEPT !.name = str(@)]
              [] OTHER -> code

\* __replace on the declaration [class name field... method...]
ReplaceClass(class_source, template_to_actual) ==
    [name |-> ReplaceString(class_source.name, template_to_actual),
     inherits |-> IF class_source.inherits = NoClass THEN NoClass
                  ELSE ReplaceString(class_source.inherits,
                                     template_to_actual),
     fields |-> ReplaceVarDefs(class_source.fields, template_to_actual),
     methods |->
        [i \in DOMAIN class_source.methods |->
            LET m == class_source.methods[i]
            IN [return_type |-> ReplaceString(m.return_type,
                                              template_to_actual),
                method_name |-> ReplaceString(m.method_name,
                                              template_to_actual),
                formal_params |-> ReplaceVarDefs(m.formal_params,
                                                 template_to_actual),
                code |-> replace(m.code, template_to_actual)]]]

VarDefStrings(var_defs) ==
    UNION {{var_defs[i].type, var_defs[i].name}
           \cup (IF "init" \in DOMAIN var_defs[i] THEN {var_defs[i].init}
                 ELSE {}) : i \in DOMAIN var_defs}

\* the strings of a statement or an expression that name something
RECURSIVE StringsOf(_)
StringsOf(code) ==
    LET of(c) == StringsOf(c)
        each(list) == UNION {of(list[i]) : i \in DOMAIN list}
    IN IF "op" \in DOMAIN code
       THEN CASE code.op = "atom" -> {code.tok}
              [] code.op = "new" -> {code.class}
              [] code.op = "call" ->
                    {code.obj, code.method} \cup each(code.args)
              [] "a2" \notin DOMAIN code -> of(code.a1)
              [] OTHER -> of(code.a1) \cup of(code.a2)
       ELSE CASE code.tok = "begin" -> each(code.stmts)
              [] code.tok = "let" ->
                    VarDefStrings(code.vars) \cup each(code.stmts)
              [] code.tok = "set" -> {code.name} \cup of(code.expr)
              [] code.tok = "if" ->
                    of(code.cond) \cup of(code.then)
                    \cup of(code.else)
              [] code.tok = "while" ->
                    of(code.cond) \cup of(code.body)
              [] code.tok = "call" ->
                    {code.obj, code.method} \cup each(code.args)
              [] code.tok \in {"return", "throw"} -> of(code.expr)
              [] code.tok = "try" ->
                    of(code.block) \cup of(code.catch)
              [] code.tok = "print" -> each(code.exprs)
              [] code.tok \in {INPUT_STRING_DEF, INPUT_INT_DEF} ->
                    {code.name}
              [] OTHER -> {}

ClassStrings(class_source) ==
    {class_source.name}
    \cup VarDefStrings(class_source.fields)
    \cup UNION {{class_source.methods[i].return_type,
                 class_source.methods[i].method_name}
                \cup VarDefStrings(class_source.methods[i].formal_params)
                \cup StringsOf(class_source.methods[i].code) :
                  i \in DOMAIN class_source.methods}

\* __validate: the error it raises on a blueprint's declaration
validate(tm, templated_types, class_source) ==
    LET invalid(code_parts) ==
            \E i \in 2..Len(code_parts) :
               /\ ~is_valid_type(tm, code_parts[i])
               /\ \A j \in DOMAIN templated_types :
                      templated_types[j] # code_parts[i]
    IN IF \E code \in ClassStrings(class_source) : invalid(Split(code))
       THEN "TYPE_ERROR" ELSE "none"

\* [err, def]: TemplateClassDef.__init__ on one tclass declaration
TemplateClassDef(tm, class_source) ==
    [err |-> validate(tm, class_source.templated_types, class_source),
     def |-> [name |-> class_source.name,
              templated_types |-> class_source.templated_types,
              class_source |-> class_source]]

\* faulty variant: the parameters take the actual arguments in reverse order
InstantiatedSourceReversed(template, actual_types) ==
    LET params == template.templated_types
        template_to_actual ==
            [t \in {params[i] : i \in DOMAIN params} |->
                actual_types[Len(params) + 1
                             - CHOOSE i \in DOMAIN params : params[i] = t]]
        source == template.class_source
    IN ReplaceClass(
           [name |-> Join(<<source.name>> \o actual_types),
            inherits |-> source.inherits,
            fields |-> source.fields,
            methods |-> source.methods],
           template_to_actual)

\* the declaration instantiate_class hands to ClassDef
InstantiatedSource(template, actual_types) ==
    LET params == template.templated_types
        template_to_actual ==
            [t \in {params[i] : i \in DOMAIN params} |->
                actual_types[CHOOSE i \in DOMAIN params :
                    /\ params[i] = t
                    /\ \A j \in DOMAIN params : params[j] = t => j <= i]]
        source == template.class_source
    IN ReplaceClass(
           [name |-> Join(<<source.name>> \o actual_types),
            inherits |-> source.inherits,
            fields |-> source.fields,
            methods |-> source.methods],
           template_to_actual)

(***************************************************************************)
(* ClassDef.__init__ and TemplateClassDef.instantiate_class.  Each takes   *)
(* the registries and gives them back as it leaves them; once an error is  *)
(* raised nothing more is done.                                            *)
(***************************************************************************)
RECURSIVE ClassDef(_, _)
RECURSIVE instantiate_class(_, _, _)
RECURSIVE instantiate_in_class_body(_, _)
RECURSIVE create_field_list(_, _, _)
RECURSIVE check_param_types(_, _)
RECURSIVE create_method_list(_, _, _)

\* [reg, def]
instantiate_class(reg, template, actual_types) ==
    IF reg.err # "none" THEN [reg |-> reg, def |-> NoClassDef]
    ELSE IF reg.nesting >= MaxNesting
    THEN [reg |-> Raise(reg, "RecursionError"), def |-> NoClassDef]
    ELSE IF Len(template.templated_types) # Len(actual_types)
    THEN [reg |-> Raise(reg, "TYPE_ERROR"), def |-> NoClassDef]
    ELSE LET leave(made) ==
                 [reg |-> [made.reg EXCEPT !.nesting = reg.nesting],
                  def |-> made.def]
         IN leave(ClassDef([reg EXCEPT !.nesting = @ + 1],
                           InstantiatedSource(template, actual_types)))

\* the registries after a class body has met type_name as the type of a
\* field, a parameter or a return value
instantiate_in_class_body(reg, type_name) ==
    LET store(made) ==
            IF made.reg.err # "none" THEN made.reg
            ELSE Register(made.reg, type_name, made.def)
        resolve(type_parts) ==
            IF reg.err # "none" \/ Len(type_parts) = 1 THEN reg
            ELSE IF type_parts[1] \notin DOMAIN reg.template_class_index
            THEN Raise(reg, "TYPE_ERROR")
            ELSE IF type_name \in DOMAIN reg.class_index THEN reg
            ELSE store(instantiate_class(
                           RegisterPlaceholder(reg, type_name),
                           reg.template_class_index[type_parts[1]],
                           Tail(type_parts)))
    IN resolve(Split(type_name))

create_variable_def_from_field(field_def) ==
    IF ~field_def.has_init
    THEN VariableDef(field_def.type, field_def.name,
                     create_default_value(field_def.type))
    ELSE VariableDef(field_def.type, field_def.name,
                     create_value(field_def.init))

\* [reg, fields]: the field list of a class body
create_field_list(reg, members, done) ==
    IF reg.err # "none" \/ members = <<>>
    THEN [reg |-> reg, fields |-> done]
    ELSE LET member == Head(members)
             checked(resolved, var_def) ==
                 IF resolved.err # "none"
                 THEN [reg |-> resolved, fields |-> done]
                 ELSE IF ~IsNone(var_def.value)
                         /\ ~check_type_compatibility(resolved.type_manager,
                                var_def.type, var_def.value.t, TRUE)
                 THEN [reg |-> Raise(resolved, "TYPE_ERROR"),
                       fields |-> done]
                 ELSE create_field_list(resolved, Tail(members),
                                        Append(done, var_def))
         IN IF \E i \in DOMAIN done : done[i].name = member.name
            THEN [reg |-> Raise(reg, "NAME_ERROR"), fields |-> done]
            ELSE checked(instantiate_in_class_body(reg, member.type),
                         create_variable_def_from_field(member))

\* the registries after the loop over the formal parameters
check_param_types(reg, formal_params) ==
    IF reg.err # "none" \/ formal_params = <<>> THEN reg
    ELSE LET checked(resolved) ==
                 IF resolved.err # "none" THEN resolved
                 ELSE IF ~is_valid_type(resolved.type_manager,
                                        Head(formal_params).type)
                 THEN Raise(resolved, "TYPE_ERROR")
                 ELSE check_param_types(resolved, Tail(formal_params))
         IN checked(instantiate_in_class_body(reg,
                                              Head(formal_params).type))

check_method_names_and_types(reg, method_def) ==
    LET checked(resolved) ==
            IF resolved.err # "none" THEN resolved
            ELSE IF ~is_valid_type(resolved.type_manager,
                                   method_def.return_type)
                    /\ method_def.return_type # NOTHING_DEF
            THEN Raise(resolved, "TYPE_ERROR")
            ELSE check_param_types(resolved, method_def.formal_params)
    IN checked(instantiate_in_class_body(reg, method_def.return_type))

\* faulty variant: a method name met before is accepted
create_method_list_unchecked(reg, members, done) ==
    IF reg.err # "none" \/ members = <<>>
    THEN [reg |-> reg, methods |-> done]
    ELSE LET next(method_def) ==
                 LET add(checked) ==
                         IF checked.err # "none"
                         THEN [reg |-> checked, methods |-> done]
                         ELSE create_method_list(checked, Tail(members),
                                                 Append(done, method_def))
                 IN add(check_method_names_and_types(reg, method_def))
         IN next(MethodDef(Head(members)))

\* [reg, methods]: the method list of a class body
create_method_list(reg, members, done) ==
    IF reg.err # "none" \/ members = <<>>
    THEN [reg |-> reg, methods |-> done]
    ELSE LET next(method_def) ==
                 LET add(checked) ==
                         IF checked.err # "none"
                         THEN [reg |-> checked, methods |-> done]
                         ELSE create_method_list(checked, Tail(members),
                                                 Append(done, method_def))
                 IN IF \E i \in DOMAIN done :
                           done[i].method_name = method_def.method_name
                    THEN [reg |-> Raise(reg, "NAME_ERROR"),
                          methods |-> done]
                    ELSE add(check_method_names_and_types(reg, method_def))
         IN next(MethodDef(Head(members)))

\* [reg, def]: ClassDef.__init__ on one class declaration
ClassDef(reg, class_source) ==
    IF reg.err # "none" THEN [reg |-> reg, def |-> NoClassDef]
    ELSE LET called == [reg EXCEPT !.constructed =
                                      Append(@, class_source.name)]
             with_fields(fl) ==
                 LET with_methods(ml) ==
                         [reg |-> ml.reg,
                          def |-> [name |-> class_source.name,
                                   super_class |-> class_source.inherits,
                                   fields |-> fl.fields,
                                   methods |-> ml.methods]]
                 IN with_methods(create_method_list(
                        fl.reg, class_source.methods, <<>>))
         IN IF class_source.inherits # NoClass
               /\ class_source.inherits \notin DOMAIN reg.class_index
            THEN [reg |-> Raise(called, "TYPE_ERROR"), def |-> NoClassDef]
            ELSE with_fields(create_field_list(
                     called, class_source.fields, <<>>))

(***************************************************************************)
(* interpreterv3: the registries built by Interpreter.run.                 *)
(***************************************************************************)
IsTemplate(item) == "templated_types" \in DOMAIN item

RECURSIVE add_all_class_types_to_type_manager(_, _)
add_all_class_types_to_type_manager(tm, parsed_program) ==
    IF parsed_program = <<>> THEN tm
    ELSE add_all_class_types_to_type_manager(
             IF IsTemplate(Head(parsed_program)) THEN tm
             ELSE add_class_type(tm, Head(parsed_program).name,
                                 Head(parsed_program).inherits),
             Tail(parsed_program))

EmptyIndex == [c \in {} |-> NoClassDef]
EmptyTemplateIndex == [c \in {} |-> NoClassDef]

\* the registries after the declarations of the program, or the error
RECURSIVE map_class_names_to_class_defs(_, _)
map_class_names_to_class_defs(reg, parsed_program) ==
    IF reg.err # "none" \/ parsed_program = <<>> THEN reg
    ELSE LET item == Head(parsed_program)
             blueprint(td) ==
                 IF td.err # "none" THEN Raise(reg, td.err)
                 ELSE [reg EXCEPT !.template_class_index =
                          [c \in DOMAIN @ \cup {item.name} |->
                              IF c = item.name THEN td.def ELSE @[c]]]
             class(cd) ==
                 IF cd.reg.err # "none" THEN cd.reg
                 ELSE Register(cd.reg, item.name, cd.def)
         IN IF \/ item.name \in DOMAIN reg.class_index
               \/ item.name \in DOMAIN reg.template_class_index
            THEN Raise(reg, "TYPE_ERROR")
            ELSE map_class_names_to_class_defs(
                     IF IsTemplate(item)
                     THEN blueprint(TemplateClassDef(reg.type_manager, item))
                     ELSE class(ClassDef(reg, item)),
                     Tail(parsed_program))

(***************************************************************************)
(* env_v3.EnvironmentManager: a list of dicts, innermost last.             *)
(***************************************************************************)
EmptyFrame == [s \in {} |-> NoVarDef]

EnvironmentManager == <<EmptyFrame>>

RECURSIVE get(_, _)
get(env, symbol) ==
    IF env = <<>> THEN NoVarDef
    ELSE IF symbol \in DOMAIN env[Len(env)] THEN env[Len(env)][symbol]
    ELSE get(SubSeq(env, 1, Len(env) - 1), symbol)

\* faulty variant: a symbol bound in an outer frame counts as taken
create_new_symbol_any_frame(env, symbol) ==
    IF \A i \in DOMAIN env : symbol \notin DOMAIN env[i]
    THEN [ok |-> TRUE,
          env |-> [env EXCEPT ![Len(env)] =
                      [s \in DOMAIN @ \cup {symbol} |->
                          IF s = symbol THEN NoVarDef ELSE @[s]]]]
    ELSE [ok |-> FALSE, env |-> env]

\* [ok, env]
create_new_symbol(env, symbol) ==
    IF symbol \notin DOMAIN env[Len(env)]
    THEN [ok |-> TRUE,
          env |-> [env EXCEPT ![Len(env)] =
                      [s \in DOMAIN @ \cup {symbol} |->
                          IF s = symbol THEN NoVarDef ELSE @[s]]]]
    ELSE [ok |-> FALSE, env |-> env]

\* the index of the innermost frame holding symbol, 0 when there is none
RECURSIVE FrameOf(_, _)
FrameOf(env, symbol) ==
    IF env = <<>> THEN 0
    ELSE IF symbol \in DOMAIN env[Len(env)] THEN Len(env)
    ELSE FrameOf(SubSeq(env, 1, Len(env) - 1), symbol)

\* faulty variant: the frames are searched from the outermost one
set_outermost(env, symbol, value) ==
    IF FrameOf(env, symbol) = 0 THEN [ok |-> FALSE, env |-> env]
    ELSE LET first == CHOOSE i \in DOMAIN env :
                         /\ symbol \in DOMAIN env[i]
                         /\ \A j \in 1..(i - 1) : symbol \notin DOMAIN env[j]
         IN [ok |-> TRUE, env |-> [env EXCEPT ![first][symbol] = value]]

\* [ok, env]
set(env, symbol, value) ==
    IF FrameOf(env, symbol) = 0 THEN [ok |-> FALSE, env |-> env]
    ELSE [ok |-> TRUE,
          env |-> [env EXCEPT ![FrameOf(env, symbol)][symbol] = value]]

block_nest(env) == Append(env, EmptyFrame)

block_unnest(env) == SubSeq(env, 1, Len(env) - 1)

(***************************************************************************)
(* objectv3.ObjectDef construction.  An ObjectDef is                       *)
(*   [class_def, anchor_object, super_object, fields: name -> VariableDef] *)
(* and its identity is its index in objs.                                  *)
(***************************************************************************)
instantiate_fields(class_def) ==
    [f \in {class_def.fields[i].name : i \in DOMAIN class_def.fields} |->
        LET i == CHOOSE j \in DOMAIN class_def.fields :
                     class_def.fields[j].name = f
        IN class_def.fields[i]]

\* faulty variant: every level is handed the level above it as its anchor
SuperAnchorIsParent(self, anchor_object) == self

\* the anchor a level hands to the level below it
SuperAnchor(self, anchor_object) == anchor_object

\* objs after ObjectDef.__init__(class_def, anchor_object); the new object
\* is Len(os) + 1 and its superclass levels follow it.
RECURSIVE ObjectDef(_, _, _, _)
ObjectDef(index, os, class_name, anchor_object) ==
    LET self == Len(os) + 1
        class_def == index[class_name]
        anchor == IF anchor_object = NoObj THEN self ELSE anchor_object
        has_super == class_def.super_class # NoClass
        me == [class_def |-> class_name,
               anchor_object |-> anchor,
               super_object |-> IF has_super THEN self + 1 ELSE NoObj,
               fields |-> instantiate_fields(class_def)]
    IN IF has_super
       THEN ObjectDef(index, Append(os, me), class_def.super_class,
                      SuperAnchor(self, anchor))
       ELSE Append(os, me)

\* the number of levels ObjectDef.__init__ builds for a class
RECURSIVE LevelsOf(_, _)
LevelsOf(index, class_name) ==
    IF index[class_name].super_class = NoClass THEN 1
    ELSE 1 + LevelsOf(index, index[class_name].super_class)

(***************************************************************************)
(* The evaluator's call stack.  A frame is one activation of a method of   *)
(* ObjectDef: kind names the method, pc the place it has reached, self the *)
(* object level it runs on, node the code it was given.  depth0 is the     *)
(* number of scope frames of the environment when the activation began.    *)
(***************************************************************************)
NoCode == [tok |-> "<none>"]

Frame(kind, self, node, return_type, depth0) ==
    [kind |-> kind, pc |-> "start", self |-> self, node |-> node,
     return_type |-> return_type, depth0 |-> depth0,
     i |-> 0, vals |-> <<>>, obj |-> NoObj, super_only |-> FALSE,
     method_name |-> "", text |-> ""]

NoRet == [status |-> "NONE", value |-> NoValue, by |-> "", depth0 |-> 0,
          self |-> NoObj]

StmtKinds == {"begin", "let", "set", "if", "while", "call", "return",
              "throw", "try", "print", INPUT_STRING_DEF, INPUT_INT_DEF}

Top == stack[Len(stack)]
Pop == SubSeq(stack, 1, Len(stack) - 1)
Env == envs[Len(envs)]

Running == phase = "running" /\ error = "none" /\ stack # <<>>

\* the activation on top returns (status, value) to its caller
Return(status, value) ==
    /\ stack' = Pop
    /\ ret' = [status |-> status, value |-> value, by |-> Top.kind,
               depth0 |-> Top.depth0, self |-> Top.self]

\* the activation on top goes on as frame top and calls child
Call(top, child) ==
    /\ stack' = Append(Append(Pop, top), child)
    /\ ret' = NoRet

\* faulty variant: __execute_try handles the errors raised under its
\* protected block as it handles a thrown exception
TryInterceptsAll(kind) == TRUE

\* whether __execute_try has a handler for the Python exception that
\* interpreter.error(kind) raises under its protected block: it calls
\* __execute_statement plainly, outside any try/except
TryIntercepts(kind) == FALSE

\* the try activations that would handle an error of this kind
Handlers(kind) ==
    {i \in DOMAIN stack : /\ stack[i].kind = "try" /\ stack[i].pc = "block"
                          /\ TryIntercepts(kind)}

\* interpreter.error(kind): the exception it raises goes up the Python
\* stack to the innermost handler; with none, the run is aborted where it
\* stands
HostError(kind) ==
    IF Handlers(kind) = {}
    THEN /\ error' = kind
         /\ phase' = "done"
         /\ UNCHANGED <<session, objs, envs, stack,
                        ret, output>>
    ELSE LET i == CHOOSE h \in Handlers(kind) :
                      \A j \in Handlers(kind) : j <= h
             k == Cardinality({j \in 1..i : stack[j].kind = "call_method"})
         IN /\ stack' = SubSeq(stack, 1, i)
            /\ envs' = [SubSeq(envs, 1, k) EXCEPT ![k] =
                            SubSeq(@, 1, stack[i].depth0)]
            /\ ret' = [status |-> STATUS_EXCEPTION,
                       value |-> Value(STRING_DEF, kind),
                       by |-> "error", depth0 |-> stack[i].depth0,
                       self |-> stack[i].self]
            /\ UNCHANGED <<phase, error, session, objs,
                           output>>

\* the registries as they stand
Registered ==
    Registry(class_index, template_class_index, type_manager, constructed)

Rebind(reg) ==
    /\ class_index' = reg.class_index
    /\ template_class_index' = reg.template_class_index
    /\ type_manager' = reg.type_manager
    /\ constructed' = reg.constructed

SetRegistry(reg) == Rebind(reg) /\ UNCHANGED <<pending, again>>

\* faulty variant: the activations of a run share one EnvironmentManager
SetEnvShared(env) == envs' = [k \in DOMAIN envs |-> env]

SetEnv(env) == envs' = [envs EXCEPT ![Len(envs)] = env]

\* __execute_statement: the activation that runs statement code
StmtFrame(self, return_type, code) ==
    Frame(code.tok, self, code, return_type, Len(Env))

ExprFrame(self, expr) == Frame("expr", self, expr, NoClass, Len(Env))

Atom(tok) == [op |-> "atom", tok |-> tok]

(***************************************************************************)
(* begin and let                                                           *)
(***************************************************************************)
\* the registries after __add_locals_to_env has met the type of a local
instantiate_for_local(reg, type_name) ==
    LET store(made) ==
            IF made.reg.err # "none" THEN made.reg
            ELSE [Register(made.reg, type_name, made.def)
                    EXCEPT !.type_manager =
                               add_class_type(@, type_name, NoClass)]
        resolve(var_type_parts) ==
            IF Len(var_type_parts) = 1 THEN reg
            ELSE IF var_type_parts[1] \notin DOMAIN reg.template_class_index
            THEN Raise(reg, "KeyError")
            ELSE store(instantiate_class(
                           reg, reg.template_class_index[var_type_parts[1]],
                           Tail(var_type_parts)))
    IN IF type_name \in DOMAIN reg.class_index THEN reg
       ELSE resolve(Split(type_name))

\* [reg, env]: __add_locals_to_env
RECURSIVE add_locals_to_env(_, _, _)
add_locals_to_env(reg, env, var_defs) ==
    IF var_defs = <<>> THEN [reg |-> reg, env |-> env]
    ELSE LET var_def == Head(var_defs)
             add(resolved, default_value, created) ==
                 IF resolved.err # "none"
                 THEN [reg |-> resolved, env |-> env]
                 ELSE IF IsNone(default_value)
                 THEN [reg |-> resolved, env |-> env]
                 ELSE IF ~check_type_compatibility(resolved.type_manager,
                             var_def.type, default_value.t, TRUE)
                 THEN [reg |-> Raise(resolved, "TYPE_ERROR"), env |-> env]
                 ELSE IF ~created.ok
                 THEN [reg |-> Raise(resolved, "NAME_ERROR"), env |-> env]
                 ELSE add_locals_to_env(resolved,
                          set(created.env, var_def.name,
                              VariableDef(var_def.type, var_def.name,
                                          default_value)).env,
                          Tail(var_defs))
         IN add(instantiate_for_local(reg, var_def.type),
                IF ~var_def.has_init
                THEN create_default_value(var_def.type)
                ELSE create_value(var_def.init),
                create_new_symbol(env, var_def.name))

\* whether the statement loop of __execute_begin stops after this status
BeginBreaks(status) == status \in {STATUS_RETURN, STATUS_EXCEPTION}

\* faulty variant: the frame of a let is left on the environment
BeginExitKeepsFrame(has_vardef, env) == env

\* the environment __execute_begin leaves behind for a block
BeginExit(has_vardef, env) == IF has_vardef THEN block_unnest(env) ELSE env

ExecuteBegin ==
    /\ Running /\ Top.kind \in {"begin", "let"}
    /\ LET has_vardef == Top.kind = "let"
           code == Top.node
           start(entered) ==
               IF entered.reg.err # "none"
               THEN HostError(entered.reg.err)
               ELSE /\ UNCHANGED <<phase, error>>
                    /\ SetRegistry(entered.reg)
                    /\ IF code.stmts = <<>>
                       THEN /\ Return(STATUS_PROCEED, NoValue)
                            /\ SetEnv(BeginExit(has_vardef, entered.env))
                       ELSE /\ SetEnv(entered.env)
                            /\ Call([Top EXCEPT !.pc = "loop", !.i = 1],
                                    [StmtFrame(Top.self, Top.return_type,
                                               code.stmts[1])
                                       EXCEPT !.depth0 = Len(entered.env)])
       IN IF Top.pc = "start"
          THEN start(IF has_vardef
                     THEN add_locals_to_env(Registered, block_nest(Env),
                                            code.vars)
                     ELSE [reg |-> Registered, env |-> Env])
          ELSE /\ UNCHANGED <<phase, error, session>>
               /\ IF BeginBreaks(ret.status) \/ Top.i = Len(code.stmts)
                  THEN /\ Return(ret.status, ret.value)
                       /\ SetEnv(BeginExit(has_vardef, Env))
                  ELSE /\ Call([Top EXCEPT !.i = Top.i + 1],
                               StmtFrame(Top.self, Top.return_type,
                                         code.stmts[Top.i + 1]))
                       /\ UNCHANGED envs
    /\ UNCHANGED <<objs, output>>

(***************************************************************************)
(* set                                                                     *)
(***************************************************************************)
\* [err, done, env]: __set_local_or_param
set_local_or_param(tm, env, var_name, value) ==
    LET var_def == get(env, var_name)
    IN IF IsNoVarDef(var_def) THEN [err |-> "none", done |-> FALSE, env |-> env]
       ELSE IF ~check_type_compatibility(tm, var_def.type, value.t, TRUE)
       THEN [err |-> "TYPE_ERROR", done |-> FALSE, env |-> env]
       ELSE [err |-> "none", done |-> TRUE,
             env |-> set(env, var_name, set_value(var_def, value)).env]

\* faulty variant: a field takes a value of any type
set_field_unchecked(tm, os, self, field_name, value) ==
    IF field_name \notin DOMAIN os[self].fields
    THEN [err |-> "none", done |-> FALSE, os |-> os]
    ELSE [err |-> "none", done |-> TRUE,
          os |-> [os EXCEPT ![self].fields[field_name] =
                     set_value(@, value)]]

\* [err, done, os]: __set_field on object level self
\* faulty variant: the objects of a class use the VariableDefs of its
\* ClassDef, not copies of them
set_field_shared(tm, os, self, field_name, value) ==
    IF field_name \notin DOMAIN os[self].fields
    THEN [err |-> "none", done |-> FALSE, os |-> os]
    ELSE IF ~check_type_compatibility(tm, os[self].fields[field_name].type,
                                      value.t, TRUE)
    THEN [err |-> "TYPE_ERROR", done |-> FALSE, os |-> os]
    ELSE [err |-> "none", done |-> TRUE,
          os |-> [o \in DOMAIN os |->
                     IF os[o].class_def = os[self].class_def
                     THEN [os[o] EXCEPT !.fields[field_name] =
                                            set_value(@, value)]
                     ELSE os[o]]]

set_field(tm, os, self, field_name, value) ==
    IF field_name \notin DOMAIN os[self].fields
    THEN [err |-> "none", done |-> FALSE, os |-> os]
    ELSE IF ~check_type_compatibility(tm, os[self].fields[field_name].type,
                                      value.t, TRUE)
    THEN [err |-> "TYPE_ERROR", done |-> FALSE, os |-> os]
    ELSE [err |-> "none", done |-> TRUE,
          os |-> [os EXCEPT ![self].fields[field_name] =
                     set_value(@, value)]]

\* faulty variant: a field is looked for before a local or a parameter
set_variable_aux_field_first(tm, env, os, self, var_name, value) ==
    LET loc == set_local_or_param(tm, env, var_name, value)
        fld == set_field(tm, os, self, var_name, value)
    IN IF IsNone(value) THEN [err |-> "none", env |-> env, os |-> os]
       ELSE IF fld.err # "none" THEN [err |-> fld.err, env |-> env, os |-> os]
       ELSE IF fld.done THEN [err |-> "none", env |-> env, os |-> fld.os]
       ELSE IF loc.err # "none" THEN [err |-> loc.err, env |-> env, os |-> os]
       ELSE IF loc.done THEN [err |-> "none", env |-> loc.env, os |-> os]
       ELSE [err |-> "NAME_ERROR", env |-> env, os |-> os]

\* [err, env, os]: __set_variable_aux
set_variable_aux(tm, env, os, self, var_name, value) ==
    LET loc == set_local_or_param(tm, env, var_name, value)
        fld == set_field(tm, os, self, var_name, value)
    IN IF IsNone(value) THEN [err |-> "none", env |-> env, os |-> os]
       ELSE IF loc.err # "none" THEN [err |-> loc.err, env |-> env, os |-> os]
       ELSE IF loc.done THEN [err |-> "none", env |-> loc.env, os |-> os]
       ELSE IF fld.err # "none" THEN [err |-> fld.err, env |-> env, os |-> os]
       ELSE IF fld.done THEN [err |-> "none", env |-> env, os |-> fld.os]
       ELSE [err |-> "NAME_ERROR", env |-> env, os |-> os]

ExecuteSet ==
    /\ Running /\ Top.kind = "set"
    /\ LET code == Top.node
           res == set_variable_aux(type_manager, Env, objs, Top.self,
                                   code.name, ret.value)
       IN IF Top.pc = "start"
          THEN /\ Call([Top EXCEPT !.pc = "expr"],
                       ExprFrame(Top.self, code.expr))
               /\ UNCHANGED <<phase, error, envs, objs>>
          ELSE IF ret.status = STATUS_EXCEPTION
          THEN /\ Return(ret.status, ret.value)
               /\ UNCHANGED <<phase, error, envs, objs>>
          ELSE IF res.err # "none"
          THEN HostError(res.err)
          ELSE /\ Return(STATUS_PROCEED, NoValue)
               /\ SetEnv(res.env)
               /\ objs' = res.os
               /\ UNCHANGED <<phase, error>>
    /\ UNCHANGED <<session, output>>

(***************************************************************************)
(* if and while                                                            *)
(***************************************************************************)
ExecuteIf ==
    /\ Running /\ Top.kind = "if"
    /\ LET code == Top.node
           condition == ret.value
       IN IF Top.pc = "start"
          THEN /\ Call([Top EXCEPT !.pc = "cond"],
                       ExprFrame(Top.self, code.cond))
               /\ UNCHANGED <<phase, error>>
          ELSE IF Top.pc = "cond"
          THEN IF ret.status = STATUS_EXCEPTION
               THEN Return(ret.status, ret.value) /\ UNCHANGED <<phase, error>>
               ELSE IF IsNone(condition) \/ condition.t # BOOL_DEF
               THEN HostError("TYPE_ERROR")
               ELSE /\ UNCHANGED <<phase, error>>
                    /\ IF ~condition.n /\ condition.v
                       THEN Call([Top EXCEPT !.pc = "branch"],
                                 StmtFrame(Top.self, Top.return_type,
                                           code.then))
                       ELSE IF code.has_else
                       THEN Call([Top EXCEPT !.pc = "branch"],
                                 StmtFrame(Top.self, Top.return_type,
                                           code.else))
                       ELSE Return(STATUS_PROCEED, NoValue)
          ELSE Return(ret.status, ret.value) /\ UNCHANGED <<phase, error>>
    /\ UNCHANGED <<session, objs, envs, output>>

\* whether __execute_while leaves the loop after this status of its body
\* faulty variant: only a return leaves the loop
WhileBreaksOnReturn(status) == status = STATUS_RETURN

WhileBreaks(status) == status \in {STATUS_EXCEPTION, STATUS_RETURN}

ExecuteWhile ==
    /\ Running /\ Top.kind = "while"
    /\ LET code == Top.node
           condition == ret.value
       IN IF Top.pc = "start"
             \/ (Top.pc = "body" /\ ~WhileBreaks(ret.status))
          THEN /\ Call([Top EXCEPT !.pc = "cond"],
                       ExprFrame(Top.self, code.cond))
               /\ UNCHANGED <<phase, error>>
          ELSE IF Top.pc = "body"
          THEN Return(ret.status, ret.value) /\ UNCHANGED <<phase, error>>
          ELSE IF ret.status = STATUS_EXCEPTION
          THEN Return(ret.status, ret.value) /\ UNCHANGED <<phase, error>>
          ELSE IF IsNone(condition) \/ condition.t # BOOL_DEF
          THEN HostError("TYPE_ERROR")
          ELSE /\ UNCHANGED <<phase, error>>
               /\ IF condition.n \/ ~condition.v
                  THEN Return(STATUS_PROCEED, NoValue)
                  ELSE Call([Top EXCEPT !.pc = "body"],
                            StmtFrame(Top.self, Top.return_type, code.body))
    /\ UNCHANGED <<session, objs, envs, output>>

(***************************************************************************)
(* return, throw, try                                                      *)
(***************************************************************************)
\* faulty variant: a typeless null is handed back as it is
ReturnResultUnstamped(return_type, result) == result

\* the value __execute_return hands back for an evaluated operand
ReturnResult(return_type, result) ==
    IF ~IsNone(result) /\ is_typeless_null(result)
    THEN NullValue(return_type) ELSE result

ExecuteReturn ==
    /\ Running /\ Top.kind = "return"
    /\ LET code == Top.node
           result == ReturnResult(Top.return_type, ret.value)
       IN IF Top.pc = "start"
          THEN /\ UNCHANGED <<phase, error>>
               /\ IF ~code.has_expr
                  THEN Return(STATUS_RETURN, NoValue)
                  ELSE Call([Top EXCEPT !.pc = "expr"],
                            ExprFrame(Top.self, code.expr))
          ELSE IF ret.status = STATUS_EXCEPTION
          THEN Return(ret.status, ret.value) /\ UNCHANGED <<phase, error>>
          ELSE IF IsNone(ret.value)
          THEN HostError("AttributeError")
          ELSE IF is_typeless_null(ret.value)
                  /\ ~check_type_compatibility(type_manager, Top.return_type,
                                               ret.value.t, TRUE)
          THEN HostError("TYPE_ERROR")
          ELSE IF ~check_type_compatibility(type_manager, Top.return_type,
                                            result.t, TRUE)
          THEN HostError("TYPE_ERROR")
          ELSE Return(STATUS_RETURN, result) /\ UNCHANGED <<phase, error>>
    /\ UNCHANGED <<session, objs, envs, output>>

\* whether __execute_throw accepts the evaluated operand
ThrowAccepts(result) == ~IsNone(result) /\ result.t = STRING_DEF

ExecuteThrow ==
    /\ Running /\ Top.kind = "throw"
    /\ IF Top.pc = "start"
       THEN /\ Call([Top EXCEPT !.pc = "expr"],
                    ExprFrame(Top.self, Top.node.expr))
            /\ UNCHANGED <<phase, error>>
       ELSE IF ret.status = STATUS_EXCEPTION
       THEN Return(ret.status, ret.value) /\ UNCHANGED <<phase, error>>
       ELSE IF ~ThrowAccepts(ret.value)
       THEN HostError("TYPE_ERROR")
       ELSE Return(STATUS_EXCEPTION, ret.value) /\ UNCHANGED <<phase, error>>
    /\ UNCHANGED <<session, objs, envs, output>>

\* whether __execute_try runs the catch block after this status
TryCatches(status) == status = STATUS_EXCEPTION

\* faulty variant: the exception variable is bound in the frame of the enclosing
\* block and an empty frame is put on top of it
CatchEnvBindsOutside(env, thrown) ==
    block_nest([env EXCEPT ![Len(env)] =
        [s \in DOMAIN @ \cup {EXCEPTION_VARIABLE_DEF} |->
            IF s = EXCEPTION_VARIABLE_DEF
            THEN VariableDef(STRING_DEF, EXCEPTION_VARIABLE_DEF, thrown)
            ELSE @[s]]])

\* the environment in which __execute_try runs the catch block
CatchEnv(env, thrown) ==
    set(create_new_symbol(block_nest(env), EXCEPTION_VARIABLE_DEF).env,
        EXCEPTION_VARIABLE_DEF,
        VariableDef(STRING_DEF, EXCEPTION_VARIABLE_DEF, thrown)).env

ExecuteTry ==
    /\ Running /\ Top.kind = "try"
    /\ LET code == Top.node
       IN IF Top.pc = "start"
          THEN /\ Call([Top EXCEPT !.pc = "block"],
                       StmtFrame(Top.self, Top.return_type, code.block))
               /\ UNCHANGED envs
          ELSE IF Top.pc = "block"
          THEN IF TryCatches(ret.status)
               THEN /\ SetEnv(CatchEnv(Env, ret.value))
                    /\ Call([Top EXCEPT !.pc = "catch", !.vals = <<ret.value>>],
                            [StmtFrame(Top.self, Top.return_type, code.catch)
                               EXCEPT !.depth0 = Len(Env) + 1])
               ELSE Return(ret.status, ret.value) /\ UNCHANGED envs
          ELSE /\ SetEnv(block_unnest(Env))
               /\ Return(ret.status, ret.value)
    /\ UNCHANGED <<phase, error, session, objs,
                   output>>

(***************************************************************************)
(* print                                                                   *)
(***************************************************************************)
\* str(val) as __execute_print appends it to the output line
TextOf(term) ==
    IF term.n THEN "None"
    ELSE IF term.t = BOOL_DEF THEN (IF term.v THEN "true" ELSE "false")
    ELSE IF term.t = INT_DEF THEN ToString(term.v)
    ELSE IF term.t = STRING_DEF THEN term.v
    ELSE "<object>"

ExecutePrint ==
    /\ Running /\ Top.kind = "print"
    /\ LET code == Top.node
           text == IF Top.pc = "start" THEN ""
                   ELSE Top.text \o TextOf(ret.value)
       IN IF Top.pc = "term" /\ ret.status = STATUS_EXCEPTION
          THEN /\ Return(ret.status, ret.value)
               /\ UNCHANGED <<phase, error, output>>
          ELSE IF Top.pc = "term" /\ IsNone(ret.value)
          THEN HostError("TYPE_ERROR")
          ELSE IF Top.i = Len(code.exprs)
          THEN /\ Len(output) < MaxOutput
               /\ output' = Append(output, text)
               /\ Return(STATUS_PROCEED, NoValue)
               /\ UNCHANGED <<phase, error>>
          ELSE /\ Call([Top EXCEPT !.pc = "term", !.i = Top.i + 1,
                                   !.text = text],
                       ExprFrame(Top.self, code.exprs[Top.i + 1]))
               /\ UNCHANGED <<phase, error, output>>
    /\ UNCHANGED <<session, objs, envs>>

(***************************************************************************)
(* inputs and inputi                                                       *)
(***************************************************************************)
\* the lines the input source may hand over
InputLines == {"5", "a"}

\* int(inp) of Python on a line: [ok, value], not ok when int raises
\* ValueError
ParseInt(inp) ==
    IF inp \in DOMAIN IntToken THEN [ok |-> TRUE, value |-> IntToken[inp]]
    ELSE [ok |-> FALSE, value |-> 0]

ExecuteInput ==
    /\ Running /\ Top.kind \in {INPUT_STRING_DEF, INPUT_INT_DEF}
    /\ \E inp \in InputLines :
         LET get_string == Top.kind = INPUT_STRING_DEF
             val == IF get_string THEN Value(STRING_DEF, inp)
                    ELSE Value(INT_DEF, ParseInt(inp).value)
             res == set_variable_aux(type_manager, Env, objs, Top.self,
                                     Top.node.name, val)
         IN IF ~get_string /\ ~ParseInt(inp).ok
            THEN HostError("ValueError")
            ELSE IF res.err # "none"
            THEN HostError(res.err)
            ELSE /\ Return(STATUS_PROCEED, NoValue)
                 /\ SetEnv(res.env)
                 /\ objs' = res.os
                 /\ UNCHANGED <<phase, error>>
    /\ UNCHANGED <<session, output>>

(***************************************************************************)
(* Method dispatch                                                         *)
(***************************************************************************)
\* ObjectDef.methods[method_name] of level obj, NoCode when it has none
MethodOf(index, os, obj, method_name) ==
    LET methods == index[os[obj].class_def].methods
    IN IF \E i \in DOMAIN methods : methods[i].method_name = method_name
       THEN methods[CHOOSE i \in DOMAIN methods :
                        methods[i].method_name = method_name]
       ELSE NoCode

HasMethod(index, os, obj, method_name) ==
    \E i \in DOMAIN index[os[obj].class_def].methods :
        index[os[obj].class_def].methods[i].method_name = method_name

Min(a, b) == IF a < b THEN a ELSE b

\* __compatible_param_types over zip(formal_params, actual_params), from
\* position i: "yes", "no", or "AttributeError" when an actual is None
RECURSIVE compatible_param_types(_, _, _, _)
compatible_param_types(tm, actual_params, formal_params, i) ==
    IF i > Min(Len(formal_params), Len(actual_params)) THEN "yes"
    ELSE IF IsNone(actual_params[i]) THEN "AttributeError"
    ELSE IF ~check_type_compatibility(tm, formal_params[i].type,
                                      actual_params[i].t, TRUE)
    THEN "no"
    ELSE compatible_param_types(tm, actual_params, formal_params, i + 1)

\* faulty variant: a method is matched by its name and arity alone
MethodMatchesByArity(index, tm, os, obj, method_name, actual_params) ==
    IF Len(actual_params)
         # Len(MethodOf(index, os, obj, method_name).formal_params)
    THEN "no" ELSE "yes"

\* whether the method of this name at level obj takes these arguments:
\* "yes", "no" or "AttributeError"
MethodMatches(index, tm, os, obj, method_name, actual_params) ==
    LET method_def == MethodOf(index, os, obj, method_name)
    IN IF Len(actual_params) # Len(method_def.formal_params) THEN "no"
       ELSE compatible_param_types(tm, actual_params,
                                   method_def.formal_params, 1)

\* __get_obj_with_method: the level found, NoObj for None, -1 when the
\* search itself fails with AttributeError
RECURSIVE get_obj_with_method(_, _, _, _, _, _)
get_obj_with_method(index, tm, os, cur_obj, method_name, actual_params) ==
    IF cur_obj = NoObj THEN NoObj
    ELSE IF ~HasMethod(index, os, cur_obj, method_name)
    THEN get_obj_with_method(index, tm, os, os[cur_obj].super_object,
                             method_name, actual_params)
    ELSE LET m == MethodMatches(index, tm, os, cur_obj, method_name,
                                actual_params)
         IN IF m = "yes" THEN cur_obj
            ELSE IF m = "AttributeError" THEN -1
            ELSE get_obj_with_method(index, tm, os, os[cur_obj].super_object,
                                     method_name, actual_params)

\* faulty variant: the search for the method to run starts at the receiving level
DispatchStartAtSelf(os, self, super_only) == self

\* the level at which call_method starts the search for the method to run
DispatchStart(os, self, super_only) ==
    IF super_only THEN self ELSE os[self].anchor_object

\* faulty variant: the first check is made from the anchor as well
KnownStartAtAnchor(os, self) == os[self].anchor_object

\* the level from which call_method first checks that the method is known
KnownStart(os, self) == self

\* [err, env]: the formal parameters bound in a fresh EnvironmentManager
RECURSIVE BindParams(_, _, _, _)
BindParams(env, formal_params, actual_params, i) ==
    IF i > Min(Len(formal_params), Len(actual_params))
    THEN [err |-> "none", env |-> env]
    ELSE LET formal_copy == set_value(formal_params[i], actual_params[i])
             created == create_new_symbol(env, formal_copy.name)
         IN IF IsNone(actual_params[i]) THEN [err |-> "none-actual", env |-> env]
            ELSE IF ~created.ok THEN [err |-> "NAME_ERROR", env |-> env]
            ELSE BindParams(set(created.env, formal_copy.name, formal_copy).env,
                            formal_params, actual_params, i + 1)

\* [status, value]: what call_method returns for the body's result
\* faulty variant: a returned value is handed on with the RETURN status
CallResultKeepsReturn(status, return_value, return_type) ==
    IF status = STATUS_EXCEPTION \/ ~IsNone(return_value)
    THEN [status |-> status, value |-> return_value]
    ELSE [status |-> STATUS_PROCEED,
          value |-> create_default_value(return_type)]

CallResult(status, return_value, return_type) ==
    IF status = STATUS_RETURN /\ ~IsNone(return_value)
    THEN [status |-> STATUS_PROCEED, value |-> return_value]
    ELSE IF status = STATUS_EXCEPTION
    THEN [status |-> STATUS_EXCEPTION, value |-> return_value]
    ELSE [status |-> STATUS_PROCEED,
          value |-> create_default_value(return_type)]

CallMethodFrame(obj, method_name, actual_params, super_only, depth0) ==
    [Frame("call_method", obj, NoCode, NoClass, depth0)
       EXCEPT !.method_name = method_name, !.vals = actual_params,
              !.super_only = super_only]

CallMethod ==
    /\ Running /\ Top.kind = "call_method"
    /\ LET self == Top.self
           known == get_obj_with_method(class_index, type_manager, objs,
                                        KnownStart(objs, self),
                                        Top.method_name, Top.vals)
           anchor == DispatchStart(objs, self, Top.super_only)
           obj_to_call_on ==
               get_obj_with_method(class_index, type_manager, objs, anchor,
                                   Top.method_name, Top.vals)
           method_def == MethodOf(class_index,  objs,
                                  IF Top.pc = "start" THEN obj_to_call_on
                                  ELSE Top.obj, Top.method_name)
           bound == BindParams(EnvironmentManager, method_def.formal_params,
                               Top.vals, 1)
           res == CallResult(ret.status, ret.value, method_def.return_type)
       IN IF Top.pc = "start"
          THEN /\ Len(envs) < MaxCallDepth
               /\ IF known = -1 \/ (known # NoObj /\ obj_to_call_on = -1)
                  THEN HostError("AttributeError")
                  ELSE IF known = NoObj
                  THEN HostError("NAME_ERROR")
                  ELSE IF obj_to_call_on = NoObj
                  THEN /\ Return(STATUS_PROCEED, NoValue)
                       /\ UNCHANGED <<phase, error, envs>>
                  ELSE IF bound.err = "none-actual"
                  THEN /\ Return(STATUS_PROCEED, NoValue)
                       /\ UNCHANGED <<phase, error, envs>>
                  ELSE IF bound.err # "none"
                  THEN HostError(bound.err)
                  ELSE /\ envs' = Append(envs, bound.env)
                       /\ Call([Top EXCEPT !.pc = "body",
                                           !.obj = obj_to_call_on],
                               Frame(method_def.code.tok, obj_to_call_on,
                                     method_def.code, method_def.return_type,
                                     Len(bound.env)))
                       /\ UNCHANGED <<phase, error>>
          ELSE /\ envs' = SubSeq(envs, 1, Len(envs) - 1)
               /\ Return(res.status, res.value)
               /\ UNCHANGED <<phase, error>>
    /\ UNCHANGED <<session, objs, output>>

(***************************************************************************)
(* call: the statement and the expression                                  *)
(***************************************************************************)
\* the arguments evaluated so far are in vals; evaluate the next one, or
\* call the method when there is none left
NextArgOrCall(frame) ==
    IF Len(frame.vals) = Len(frame.node.args)
    THEN Call([frame EXCEPT !.pc = "call"],
              CallMethodFrame(frame.obj, frame.node.method, frame.vals,
                              frame.super_only, Len(Env)))
    ELSE Call([frame EXCEPT !.pc = "args"],
              ExprFrame(frame.self, frame.node.args[Len(frame.vals) + 1]))

\* faulty variant: a call through super is sent to the calling level itself
SuperTargetIsSelf(os, self) == self

\* the level a call through super is sent to
SuperTarget(os, self) == os[self].super_object

ExecuteCallAux ==
    /\ Running /\ Top.kind = "call"
    /\ LET code == Top.node
           obj_name == code.obj
       IN IF Top.pc = "start"
          THEN IF obj_name = ME_DEF
               THEN /\ NextArgOrCall([Top EXCEPT !.obj = Top.self])
                    /\ UNCHANGED <<phase, error>>
               ELSE IF obj_name = SUPER_DEF
               THEN IF objs[Top.self].super_object = NoObj
                    THEN HostError("TYPE_ERROR")
                    ELSE /\ NextArgOrCall(
                               [Top EXCEPT !.obj = SuperTarget(objs, Top.self),
                                           !.super_only = TRUE])
                         /\ UNCHANGED <<phase, error>>
               ELSE /\ Call([Top EXCEPT !.pc = "obj"],
                            ExprFrame(Top.self, Atom(obj_name)))
                    /\ UNCHANGED <<phase, error>>
          ELSE IF Top.pc = "obj"
          THEN IF ret.status = STATUS_EXCEPTION
               THEN Return(ret.status, ret.value) /\ UNCHANGED <<phase, error>>
               ELSE IF IsNone(ret.value)
               THEN Return(STATUS_PROCEED, NoValue) /\ UNCHANGED <<phase, error>>
               ELSE IF is_null(ret.value)
               THEN HostError("FAULT_ERROR")
               ELSE IF ret.value.t \in primitive_types
               THEN HostError("AttributeError")
               ELSE /\ NextArgOrCall([Top EXCEPT !.obj = ret.value.v])
                    /\ UNCHANGED <<phase, error>>
          ELSE IF Top.pc = "args"
          THEN IF ret.status = STATUS_EXCEPTION
               THEN Return(ret.status, ret.value) /\ UNCHANGED <<phase, error>>
               ELSE /\ NextArgOrCall(
                          [Top EXCEPT !.vals = Append(Top.vals, ret.value)])
                    /\ UNCHANGED <<phase, error>>
          ELSE Return(ret.status, ret.value) /\ UNCHANGED <<phase, error>>
    /\ UNCHANGED <<session, objs, envs, output>>

(***************************************************************************)
(* Expressions                                                             *)
(***************************************************************************)
binary_op_list == {"+", "-", "*", "/", "%", "==", "!=", "<", "<=", ">", ">=",
                   "&", "|"}
unary_op_list == {"!"}
IntOps == {"+", "-", "*", "/", "%", "==", "!=", "<", "<=", ">", ">="}
StringOps == {"+", "==", "!=", "<", "<=", ">", ">="}
BoolOps == {"&", "|", "==", "!="}
ClassOps == {"==", "!="}

\* faulty variant: a null that is stored is read as it was stored
propagate_type_to_null_unset_only(var_def) ==
    IF IsNone(var_def.value) THEN NullValue(var_def.type)
    ELSE var_def.value

propagate_type_to_null(var_def) ==
    IF IsNone(var_def.value) \/ is_null(var_def.value)
    THEN NullValue(var_def.type)
    ELSE var_def.value

\* anchor.class_def.name is the name its ClassDef was constructed with
get_me_as_value(os, self) ==
    Value(class_index[os[os[self].anchor_object].class_def].name,
          os[self].anchor_object)

\* [err, value]: an expression that is a single token
\* the nearest level, from self up, that has the field; NoObj when none
RECURSIVE InheritedLevel(_, _, _)
InheritedLevel(os, self, expr) ==
    IF expr \in DOMAIN os[self].fields THEN self
    ELSE IF os[self].super_object = NoObj THEN NoObj
    ELSE InheritedLevel(os, os[self].super_object, expr)

\* faulty variant: a field of an ancestor level is found as well
EvaluateAtomInherited(env, os, self, expr) ==
    IF ~IsNoVarDef(get(env, expr))
    THEN [err |-> "none", value |-> propagate_type_to_null(get(env, expr))]
    ELSE IF InheritedLevel(os, self, expr) # NoObj
    THEN [err |-> "none",
          value |-> propagate_type_to_null(
                        os[InheritedLevel(os, self, expr)].fields[expr])]
    ELSE IF ~IsNone(create_value(expr))
    THEN [err |-> "none", value |-> create_value(expr)]
    ELSE IF expr = ME_DEF
    THEN [err |-> "none", value |-> get_me_as_value(os, self)]
    ELSE [err |-> "NAME_ERROR", value |-> NoValue]

EvaluateAtom(env, os, self, expr) ==
    IF ~IsNoVarDef(get(env, expr))
    THEN [err |-> "none", value |-> propagate_type_to_null(get(env, expr))]
    ELSE IF expr \in DOMAIN os[self].fields
    THEN [err |-> "none",
          value |-> propagate_type_to_null(os[self].fields[expr])]
    ELSE IF ~IsNone(create_value(expr))
    THEN [err |-> "none", value |-> create_value(expr)]
    ELSE IF expr = ME_DEF
    THEN [err |-> "none", value |-> get_me_as_value(os, self)]
    ELSE [err |-> "NAME_ERROR", value |-> NoValue]

\* binary_ops[INT_DEF][operator]
IntOp(operator, a, b) ==
    CASE operator = "+" -> [err |-> "none", value |-> Value(INT_DEF, a.v + b.v)]
      [] operator = "-" -> [err |-> "none", value |-> Value(INT_DEF, a.v - b.v)]
      [] operator = "*" -> [err |-> "none", value |-> Value(INT_DEF, a.v * b.v)]
      [] operator = "/" ->
            IF b.v = 0 THEN [err |-> "ZeroDivisionError", value |-> NoValue]
            ELSE [err |-> "none", value |-> Value(INT_DEF, a.v \div b.v)]
      [] operator = "%" ->
            IF b.v <= 0 THEN [err |-> "ZeroDivisionError", value |-> NoValue]
            ELSE [err |-> "none", value |-> Value(INT_DEF, a.v % b.v)]
      [] operator = "==" -> [err |-> "none", value |-> Value(BOOL_DEF, a.v = b.v)]
      [] operator = "!=" -> [err |-> "none", value |-> Value(BOOL_DEF, a.v # b.v)]
      [] operator = ">" -> [err |-> "none", value |-> Value(BOOL_DEF, a.v > b.v)]
      [] operator = "<" -> [err |-> "none", value |-> Value(BOOL_DEF, a.v < b.v)]
      [] operator = ">=" -> [err |-> "none", value |-> Value(BOOL_DEF, a.v >= b.v)]
      [] operator = "<=" -> [err |-> "none", value |-> Value(BOOL_DEF, a.v <= b.v)]

\* binary_ops[STRING_DEF][operator]; the order of strings is not computed
StringOp(operator, a, b) ==
    CASE operator = "+" ->
            [err |-> "none", value |-> Value(STRING_DEF, a.v \o b.v)]
      [] operator = "==" -> [err |-> "none", value |-> Value(BOOL_DEF, a.v = b.v)]
      [] operator = "!=" -> [err |-> "none", value |-> Value(BOOL_DEF, a.v # b.v)]
      [] OTHER -> [err |-> "string order", value |-> NoValue]

\* binary_ops[BOOL_DEF][operator]
BoolOp(operator, a, b) ==
    CASE operator = "&" -> [err |-> "none", value |-> Value(BOOL_DEF, a.v /\ b.v)]
      [] operator = "|" -> [err |-> "none", value |-> Value(BOOL_DEF, a.v \/ b.v)]
      [] operator = "==" -> [err |-> "none", value |-> Value(BOOL_DEF, a.v = b.v)]
      [] operator = "!=" -> [err |-> "none", value |-> Value(BOOL_DEF, a.v # b.v)]

\* a.value() == b.value() for object references, None included
SameRef(a, b) == (a.n /\ b.n) \/ (~a.n /\ ~b.n /\ a.v = b.v)

\* binary_ops[CLASS_DEF][operator]
ClassOp(operator, a, b) ==
    CASE operator = "==" ->
            [err |-> "none", value |-> Value(BOOL_DEF, SameRef(a, b))]
      [] operator = "!=" ->
            [err |-> "none", value |-> Value(BOOL_DEF, ~SameRef(a, b))]
      [] OTHER -> [err |-> "KeyError", value |-> NoValue]

\* [err, value]: a binary operator applied to two evaluated operands
EvaluateBinary(tm, operator, operand1, operand2) ==
    IF IsNone(operand1) \/ IsNone(operand2)
    THEN [err |-> "TYPE_ERROR", value |-> NoValue]
    ELSE IF operand1.t = operand2.t /\ operand1.t = INT_DEF
    THEN IF operator \notin IntOps
         THEN [err |-> "TYPE_ERROR", value |-> NoValue]
         ELSE IF operand1.n \/ operand2.n
         THEN [err |-> "TypeError", value |-> NoValue]
         ELSE IntOp(operator, operand1, operand2)
    ELSE IF operand1.t = operand2.t /\ operand1.t = STRING_DEF
    THEN IF operator \notin StringOps
         THEN [err |-> "TYPE_ERROR", value |-> NoValue]
         ELSE IF operand1.n \/ operand2.n
         THEN IF operator \in {"==", "!="}
              THEN [err |-> "none",
                    value |-> Value(BOOL_DEF,
                                    (operator = "==") = ValEq(operand1, operand2))]
              ELSE [err |-> "TypeError", value |-> NoValue]
         ELSE StringOp(operator, operand1, operand2)
    ELSE IF operand1.t = operand2.t /\ operand1.t = BOOL_DEF
    THEN IF operator \notin BoolOps
         THEN [err |-> "TYPE_ERROR", value |-> NoValue]
         ELSE IF operand1.n \/ operand2.n
         THEN [err |-> "none-bool", value |-> NoValue]
         ELSE BoolOp(operator, operand1, operand2)
    ELSE IF check_type_compatibility(tm, operand1.t, operand2.t, FALSE)
    THEN ClassOp(operator, operand1, operand2)
    ELSE [err |-> "TYPE_ERROR", value |-> NoValue]

\* [err, value]: a unary operator applied to an evaluated operand; an
\* operand that is not a bool falls through to the final `return PROCEED, None`
EvaluateUnary(operator, operand) ==
    IF IsNone(operand) THEN [err |-> "TYPE_ERROR", value |-> NoValue]
    ELSE IF operand.t = BOOL_DEF
    THEN [err |-> "none", value |-> Value(BOOL_DEF, ~(~operand.n /\ operand.v))]
    ELSE [err |-> "none", value |-> NoValue]

\* the registries after Interpreter.instantiate has looked up class_name
instantiate_for_new(reg, class_name) ==
    LET store(made) ==
            IF made.reg.err # "none" THEN made.reg
            ELSE Register(made.reg, class_name, made.def)
        resolve(class_parts) ==
            IF class_parts[1] \notin DOMAIN reg.template_class_index
            THEN Raise(reg, "TYPE_ERROR")
            ELSE IF \E i \in 2..Len(class_parts) :
                       /\ ~is_valid_type(reg.type_manager, class_parts[i])
                       /\ class_parts[i] \notin primitive_types
            THEN Raise(reg, "TYPE_ERROR")
            ELSE store(instantiate_class(
                           [reg EXCEPT !.type_manager =
                               add_class_type(@, class_name, NoClass)],
                           reg.template_class_index[class_parts[1]],
                           Tail(class_parts)))
    IN IF class_name \in DOMAIN reg.class_index THEN reg
       ELSE resolve(Split(class_name))

\* Interpreter.instantiate: [reg, os], the new object being Len(os) + 1
instantiate(reg, os, class_name) ==
    LET create(resolved) ==
            IF resolved.err # "none" THEN [reg |-> resolved, os |-> os]
            ELSE IF resolved.class_index[class_name] = NoClassDef
            THEN [reg |-> Raise(resolved, "AttributeError"), os |-> os]
            ELSE [reg |-> resolved,
                  os |-> ObjectDef(resolved.class_index, os, class_name,
                                   NoObj)]
    IN create(instantiate_for_new(reg, class_name))

EvaluateExpression ==
    /\ Running /\ Top.kind = "expr"
    /\ LET expr == Top.node
           operator == expr.op
           atom == EvaluateAtom(Env, objs, Top.self, expr.tok)
           bin == EvaluateBinary(type_manager, operator, Top.vals[1], ret.value)
           un == EvaluateUnary(operator, ret.value)
           created(new) ==
               IF new.reg.err # "none" THEN HostError(new.reg.err)
               ELSE /\ Len(new.os) <= MaxObjects
                    /\ objs' = new.os
                    /\ SetRegistry(new.reg)
                    /\ Return(STATUS_PROCEED,
                              Value(expr.class, Len(objs) + 1))
                    /\ UNCHANGED <<phase, error>>
       IN IF Top.pc = "start"
          THEN IF operator = "atom"
               THEN IF atom.err # "none" THEN HostError(atom.err)
                    ELSE /\ Return(STATUS_PROCEED, atom.value)
                         /\ UNCHANGED <<phase, error, objs, session>>
               ELSE IF operator \in binary_op_list
               THEN /\ Call([Top EXCEPT !.pc = "op1"],
                            ExprFrame(Top.self, expr.a1))
                    /\ UNCHANGED <<phase, error, objs, session>>
               ELSE IF operator \in unary_op_list
               THEN /\ Call([Top EXCEPT !.pc = "un"],
                            ExprFrame(Top.self, expr.a1))
                    /\ UNCHANGED <<phase, error, objs, session>>
               ELSE IF operator = "call"
               THEN /\ Call([Top EXCEPT !.pc = "call"],
                            Frame("call", Top.self, expr, NoClass, Len(Env)))
                    /\ UNCHANGED <<phase, error, objs, session>>
               ELSE IF operator = "new"
               THEN created(instantiate(Registered, objs, expr.class))
               ELSE /\ Return(STATUS_PROCEED, NoValue)
                    /\ UNCHANGED <<phase, error, objs, session>>
          ELSE IF ret.status = STATUS_EXCEPTION \/ Top.pc = "call"
          THEN /\ Return(ret.status, ret.value)
               /\ UNCHANGED <<phase, error, objs, session>>
          ELSE IF Top.pc = "op1"
          THEN /\ Call([Top EXCEPT !.pc = "op2", !.vals = <<ret.value>>],
                       ExprFrame(Top.self, expr.a2))
               /\ UNCHANGED <<phase, error, objs, session>>
          ELSE IF Top.pc = "op2"
          THEN IF bin.err # "none" THEN HostError(bin.err)
               ELSE /\ Return(STATUS_PROCEED, bin.value)
                    /\ UNCHANGED <<phase, error, objs, session>>
          ELSE IF un.err # "none" THEN HostError(un.err)
               ELSE /\ Return(STATUS_PROCEED, un.value)
                    /\ UNCHANGED <<phase, error, objs, session>>
    /\ UNCHANGED <<envs, output>>

(***************************************************************************)
(* Programs.  Syntax trees as bparser hands them over, written as records: *)
(* a statement is [tok, ...], an expression [op, ...].                     *)
(***************************************************************************)
Bin(op, a1, a2) == [op |-> op, a1 |-> a1, a2 |-> a2]
Un(op, a1) == [op |-> op, a1 |-> a1]
CallE(obj, method, args) ==
    [op |-> "call", obj |-> obj, method |-> method, args |-> args]
NewE(class) == [op |-> "new", class |-> class]

Begin(stmts) == [tok |-> "begin", stmts |-> stmts]
Let(var_defs, stmts) ==
    [tok |-> "let", vars |-> var_defs, stmts |-> stmts]
SetS(name, expr) == [tok |-> "set", name |-> name, expr |-> expr]
If(cond, then) ==
    [tok |-> "if", cond |-> cond, then |-> then, has_else |-> FALSE,
     else |-> NoCode]
While(cond, body) == [tok |-> "while", cond |-> cond, body |-> body]
CallS(obj, method, args) ==
    [tok |-> "call", obj |-> obj, method |-> method, args |-> args]
ReturnS(expr) == [tok |-> "return", has_expr |-> TRUE, expr |-> expr]
ReturnNothing == [tok |-> "return", has_expr |-> FALSE, expr |-> Atom("")]
Throw(expr) == [tok |-> "throw", expr |-> expr]
Try(block, catch) == [tok |-> "try", block |-> block, catch |-> catch]
PrintS(exprs) == [tok |-> "print", exprs |-> exprs]
InputS(tok, name) == [tok |-> tok, name |-> name]

Field(type, name, init) ==
    [type |-> type, name |-> name, has_init |-> TRUE, init |-> init]
Local(type, name, init) ==
    [type |-> type, name |-> name, has_init |-> TRUE, init |-> init]
Param(type, name) == [type |-> type, name |-> name]
Method(return_type, method_name, formal_params, code) ==
    [return_type |-> return_type, method_name |-> method_name,
     formal_params |-> formal_params, code |-> code]
Class(name, inherits, fields, methods) ==
    [name |-> name, inherits |-> inherits, fields |-> fields,
     methods |-> methods]
FieldDefault(type, name) ==
    [type |-> type, name |-> name, has_init |-> FALSE, init |-> ""]
TClass(name, templated_types, fields, methods) ==
    [name |-> name, templated_types |-> templated_types,
     inherits |-> NoClass, fields |-> fields, methods |-> methods]

(* Programs about dispatch: classes A <- B <- C, each declaring or not a  *)
(* method m with one of several signatures; main builds an instance of    *)
(* class made and calls m on it, directly, through a method go of the     *)
(* root class that calls m on me, or with every m calling super.m.        *)
Chain == <<"A", "B", "C">>
Signatures == {"none", "m()", "m(A)", "m(C)"}
Modes == {"direct", "me", "super"}
ArgLists == {<<>>, <<NewE("A")>>, <<NewE("C")>>, <<Atom("1")>>}

FormalsOf(sig) ==
    IF sig = "m(A)" THEN <<Param("A", "x")>>
    ELSE IF sig = "m(C)" THEN <<Param("C", "x")>>
    ELSE <<>>

MethodM(i, sig, mode) ==
    LET say == PrintS(<<Atom("\"" \o Chain[i] \o "\"")>>)
        pass == IF sig = "m()" THEN <<>> ELSE <<Atom("x")>>
    IN Method(VOID_DEF, "m", FormalsOf(sig),
              IF mode = "super" /\ i > 1
              THEN Begin(<<say, CallS(SUPER_DEF, "m", pass)>>)
              ELSE say)

MethodGo(args) ==
    Method(VOID_DEF, "go", <<>>,
           Begin(<<PrintS(<<Atom("\"go\"")>>), CallS(ME_DEF, "m", args)>>))

DispatchProgram(sigs, made, mode, args) ==
    [i \in 1..3 |->
        Class(Chain[i], IF i = 1 THEN NoClass ELSE Chain[i - 1], <<>>,
              (IF sigs[i] = "none" THEN <<>>
               ELSE <<MethodM(i, sigs[i], mode)>>)
              \o (IF i = 1 /\ mode = "me" THEN <<MethodGo(args)>> ELSE <<>>))]
    \o <<Class(MAIN_CLASS_DEF, NoClass, <<>>,
           <<Method(VOID_DEF, MAIN_FUNC_DEF, <<>>,
               Let(<<Local(made, "o", NULL_DEF)>>,
                   <<SetS("o", NewE(made)),
                     IF mode = "me" THEN CallS("o", "go", <<>>)
                     ELSE CallS("o", "m", args)>>))>>)>>

DispatchPrograms ==
    {DispatchProgram(sigs, made, mode, args) :
        sigs \in [1..3 -> Signatures], made \in {"A", "B", "C"},
        mode \in Modes, args \in ArgLists}

(* Programs about control flow: the body of method f is a statement       *)
(* nested in up to MaxNest enclosing statements.                          *)
IncX == SetS("x", Bin("+", Atom("x"), Atom("1")))

Leaves ==
    {IncX,
     ReturnNothing,
     ReturnS(Bin("+", Atom("x"), Atom("5"))),
     Throw(Atom("\"e\"")),
     Throw(Atom("s")),
     Throw(Atom("u")),
     Throw(Atom("x")),
     CallS(ME_DEF, "h", <<>>),
     SetS("x", CallE(ME_DEF, "r", <<>>)),
     SetS("x", Bin("+", CallE(ME_DEF, "h", <<>>), CallE(ME_DEF, "k", <<>>))),
     PrintS(<<Atom(EXCEPTION_VARIABLE_DEF)>>),
     CallS(ME_DEF, "b", <<>>)}

SayException == PrintS(<<Atom(EXCEPTION_VARIABLE_DEF)>>)

Wraps(stmt) ==
    {Begin(<<stmt, IncX>>),
     Let(<<Local(INT_DEF, "y", "0")>>, <<stmt, SetS("y", Atom("1"))>>),
     If(Bin("<", Atom("x"), Atom("7")), stmt),
     While(Bin("<", Atom("x"), Atom("2")), stmt),
     Try(stmt, SayException),
     Try(stmt, Begin(<<SayException, Throw(Atom("\"e2\""))>>)),
     Try(stmt, Begin(<<Try(Throw(Atom("\"in\"")), SayException),
                       SayException>>)),
     Try(stmt, ReturnS(Atom("2")))}

RECURSIVE Bodies(_)
Bodies(depth) ==
    IF depth = 0 THEN Leaves
    ELSE Leaves \cup UNION {Wraps(stmt) : stmt \in Bodies(depth - 1)}

ControlProgram(body) ==
    <<Class(MAIN_CLASS_DEF, NoClass,
        <<Field(INT_DEF, "x", "0"), Field(STRING_DEF, "s", "\"a\""),
          Field(STRING_DEF, "u", "unset"),
          Field(MAIN_CLASS_DEF, "n", NULL_DEF)>>,
        <<Method(VOID_DEF, MAIN_FUNC_DEF, <<>>,
            Begin(<<PrintS(<<CallE(ME_DEF, "f", <<>>)>>),
                    PrintS(<<Atom("\"end\"")>>)>>)),
          Method(INT_DEF, "f", <<>>, body),
          Method(INT_DEF, "h", <<>>, Throw(Atom("\"deep\""))),
          Method(INT_DEF, "r", <<>>,
            While(Atom("true"),
                  Let(<<Local(INT_DEF, "y", "7")>>, <<ReturnS(Atom("y"))>>))),
          Method(INT_DEF, "k", <<>>,
            Begin(<<PrintS(<<Atom("\"k\"")>>), ReturnS(Atom("1"))>>)),
          Method(INT_DEF, "b", <<>>, CallS("n", "k", <<>>))>>)>>

ControlPrograms == {ControlProgram(body) : body \in Bodies(MaxNest)}

(* Programs about typing: classes A <- B and an unrelated D; main assigns  *)
(* a value to a field, a local or a parameter x declared with type T.     *)
TypingClasses ==
    <<Class("A", NoClass, <<>>, <<>>), Class("B", "A", <<>>, <<>>),
      Class("D", NoClass, <<>>, <<>>)>>

Targets == {"field", "local", "param"}
DeclaredTypes == {"A", "B", "D", INT_DEF}
AssignedValues ==
    {NewE("A"), NewE("B"), NewE("D"), Atom("1"), Atom(NULL_DEF),
     Atom("\"a\""), Atom("na")}

InitOf(type) ==
    IF type = INT_DEF THEN "0"
    ELSE IF type = STRING_DEF THEN "\"a\"" ELSE NULL_DEF
ArgOf(type) ==
    IF type \in {INT_DEF, STRING_DEF} THEN Atom(InitOf(type))
    ELSE NewE(type)

SayOk == PrintS(<<Atom("\"ok\"")>>)

AssignProgram(target, type, expr) ==
    TypingClasses \o
    <<Class(MAIN_CLASS_DEF, NoClass,
        <<Field("A", "na", NULL_DEF)>>
        \o (IF target = "field" THEN <<Field(type, "x", InitOf(type))>>
            ELSE <<>>),
        <<Method(VOID_DEF, MAIN_FUNC_DEF, <<>>,
            CASE target = "field" -> Begin(<<SetS("x", expr), SayOk>>)
              [] target = "local" ->
                    Let(<<Local(type, "x", InitOf(type))>>,
                        <<SetS("x", expr), SayOk>>)
              [] target = "param" -> CallS(ME_DEF, "p", <<ArgOf(type)>>)),
          Method(VOID_DEF, "p", <<Param(type, "x")>>,
                 Begin(<<SetS("x", expr), SayOk>>))>>)>>

AssignPrograms ==
    {AssignProgram(target, type, expr) :
        target \in Targets, type \in DeclaredTypes, expr \in AssignedValues}

(* Programs about the target of an assignment: x is a field, a local, a   *)
(* parameter, several of them at once, or declared nowhere the statement  *)
(* can see; the statement is a set, an inputi or an inputs.               *)
Shapes == {"field", "local", "outer", "inner", "param", "paramlocal",
           "none", "inherited", "base"}
Assignments ==
    {SetS("x", Atom("5")), InputS(INPUT_INT_DEF, "x"),
     InputS(INPUT_STRING_DEF, "x")}

ResolveProgram(shape, type, stmt) ==
    LET x == Local(type, "x", InitOf(type))
        fx == <<Field(type, "x", InitOf(type))>>
    IN <<Class("base", NoClass,
           IF shape \in {"inherited", "base"} THEN fx ELSE <<>>,
           <<Method(VOID_DEF, "q", <<>>, stmt)>>),
         Class(MAIN_CLASS_DEF,
           IF shape \in {"inherited", "base"} THEN "base" ELSE NoClass,
           IF shape \in {"none", "inherited"} THEN <<>> ELSE fx,
           <<Method(VOID_DEF, MAIN_FUNC_DEF, <<>>,
               Begin(<<CASE shape \in {"field", "none", "inherited"} -> stmt
                         [] shape = "local" -> Let(<<x>>, <<stmt>>)
                         [] shape = "outer" ->
                              Let(<<x>>, <<Let(<<Local(INT_DEF, "y", "0")>>,
                                               <<stmt>>)>>)
                         [] shape = "inner" ->
                              Let(<<x>>, <<Let(<<x>>, <<stmt>>)>>)
                         [] shape = "param" ->
                              CallS(ME_DEF, "p", <<ArgOf(type)>>)
                         [] shape = "paramlocal" ->
                              CallS(ME_DEF, "pl", <<ArgOf(type)>>)
                         [] shape = "base" -> CallS(ME_DEF, "q", <<>>),
                       SayOk>>)),
             Method(VOID_DEF, "p", <<Param(type, "x")>>, stmt),
             Method(VOID_DEF, "pl", <<Param(type, "x")>>,
                    Let(<<x>>, <<stmt>>))>>)>>

ResolvePrograms ==
    {ResolveProgram(shape, type, stmt) :
        shape \in Shapes, type \in {INT_DEF, STRING_DEF},
        stmt \in Assignments}

(* Programs about null references: a and b are fields or locals declared  *)
(* with class types and holding null; main prints (== a b) or (!= a b).   *)
ClassTypes == {"A", "B", "D"}

NullProgram(where, type_a, type_b, op) ==
    TypingClasses \o
    <<Class(MAIN_CLASS_DEF, NoClass,
        IF where = "fields"
        THEN <<Field(type_a, "a", NULL_DEF), Field(type_b, "b", NULL_DEF)>>
        ELSE <<>>,
        <<Method(VOID_DEF, MAIN_FUNC_DEF, <<>>,
            IF where = "fields"
            THEN PrintS(<<Bin(op, Atom("a"), Atom("b"))>>)
            ELSE Let(<<Local(type_a, "a", NULL_DEF),
                       Local(type_b, "b", NULL_DEF)>>,
                     <<PrintS(<<Bin(op, Atom("a"), Atom("b"))>>)>>))>>)>>

NullPrograms ==
    {NullProgram(where, type_a, type_b, op) :
        where \in {"fields", "locals"}, type_a \in ClassTypes,
        type_b \in ClassTypes, op \in {"==", "!="}}

(* Programs about return: method r declared with return type R returns   *)
(* the value of an operand; main calls it.                                *)
ReturnTypes == {"A", "B", "D", INT_DEF, STRING_DEF, VOID_DEF}

ReturnProgram(type, expr) ==
    TypingClasses \o
    <<Class(MAIN_CLASS_DEF, NoClass, <<Field("A", "na", NULL_DEF)>>,
        <<Method(VOID_DEF, MAIN_FUNC_DEF, <<>>,
                 Begin(<<CallS(ME_DEF, "r", <<>>), SayOk>>)),
          Method(type, "r", <<>>, ReturnS(expr))>>)>>

ReturnPrograms ==
    {ReturnProgram(type, expr) :
        type \in ReturnTypes, expr \in AssignedValues}

(* Programs about generics.  A blueprint refers to its own instantiation  *)
(* in the type of a field, of a parameter or of a return value, or two    *)
(* blueprints refer to each other, or a blueprint of two parameters       *)
(* refers to its instantiation with the arguments swapped.  main causes a *)
(* first instantiation through the type of a field, of a parameter, of a  *)
(* return value or of a local of its own, or through new, and a second    *)
(* one through new.                                                       *)
Blueprints == {"field", "param", "return", "mutual", "pair"}
Triggers == {"mainfield", "mainparam", "mainreturn", "local", "new"}
\* the actual arguments: the primitive types and a class spelled like a
\* parameter of the two-parameter blueprint
Actuals == {INT_DEF, STRING_DEF, "U"}

Declared(blueprint) ==
    CASE blueprint = "field" ->
           <<TClass("node", <<"T">>,
               <<FieldDefault("T", "v"), Field("node@T", "next", NULL_DEF)>>,
               <<Method("T", "get", <<>>, ReturnS(Atom("v")))>>)>>
      [] blueprint = "param" ->
           <<TClass("node", <<"T">>, <<FieldDefault("T", "v")>>,
               <<Method(VOID_DEF, "put", <<Param("node@T", "n")>>,
                        SetS("v", CallE("n", "peek", <<>>))),
                 Method("T", "peek", <<>>, ReturnS(Atom("v")))>>)>>
      [] blueprint = "return" ->
           <<TClass("node", <<"T">>, <<FieldDefault("T", "v")>>,
               <<Method("node@T", "get", <<>>, ReturnS(Atom(NULL_DEF)))>>)>>
      [] blueprint = "mutual" ->
           <<TClass("ping", <<"T">>, <<Field("pong@T", "q", NULL_DEF)>>,
                    <<>>),
             TClass("pong", <<"T">>,
                    <<Field("ping@T", "p", NULL_DEF), FieldDefault("T", "v")>>,
                    <<>>)>>
      [] blueprint = "pair" ->
           <<TClass("pair", <<"T", "U">>,
               <<FieldDefault("T", "first"), FieldDefault("U", "second")>>,
               <<Method("pair@U@T", "swap", <<>>,
                        ReturnS(Atom(NULL_DEF)))>>)>>
      [] blueprint = "same" ->
           <<TClass("pair", <<"T", "U">>, <<>>,
               <<Method(BOOL_DEF, "same", <<Param("pair@T@U", "o")>>,
                        ReturnS(Bin("==", Atom(ME_DEF), Atom("o"))))>>)>>

\* the instantiation main asks for with actual arguments a (and b)
Mangled(blueprint, a, b) ==
    CASE blueprint = "mutual" -> "ping@" \o a
      [] blueprint = "pair" -> "pair@" \o a \o "@" \o b
      [] OTHER -> "node@" \o a

NewAndCompare(class_name) ==
    PrintS(<<Bin("==", NewE(class_name), Atom(NULL_DEF))>>)

GenericProgram(blueprint, trigger, a, b) ==
    LET first == Mangled(blueprint, a, b)
        second == Mangled(blueprint, b, a)
    IN Declared(blueprint) \o
       <<Class(MAIN_CLASS_DEF, NoClass,
           IF trigger = "mainfield" THEN <<Field(first, "f", NULL_DEF)>>
           ELSE <<>>,
           <<Method(VOID_DEF, MAIN_FUNC_DEF, <<>>,
               CASE trigger = "local" ->
                      Let(<<Local(first, "x", NULL_DEF)>>, <<NewAndCompare(second)>>)
                 [] trigger = "new" ->
                      Begin(<<NewAndCompare(first), NewAndCompare(second)>>)
                 [] OTHER -> Begin(<<NewAndCompare(second)>>))>>
           \o (IF trigger = "mainparam"
               THEN <<Method(VOID_DEF, "use", <<Param(first, "x")>>, SayOk)>>
               ELSE <<>>)
           \o (IF trigger = "mainreturn"
               THEN <<Method(first, "mk", <<>>, ReturnS(Atom(NULL_DEF)))>>
               ELSE <<>>)),
         Class("U", NoClass, <<>>, <<>>)>>

GenericPrograms ==
    {GenericProgram(blueprint, trigger, a, b) :
        blueprint \in Blueprints, trigger \in Triggers,
        a \in Actuals, b \in Actuals}

\* programs with a member declared twice in one class: main itself, a
\* class declared before or after main, or a subclass; `uses` says whether
\* main ever instantiates that class
Defects == {"none", "field", "fieldtype", "method", "overload"}
Places == {"main", "before", "after", "sub"}

FieldsWith(defect) ==
    CASE defect = "field" ->
           <<Field(INT_DEF, "x", "0"), Field(INT_DEF, "x", "1")>>
      [] defect = "fieldtype" ->
           <<Field(INT_DEF, "x", "0"), Field(STRING_DEF, "x", "\"ok\"")>>
      [] OTHER -> <<Field(INT_DEF, "x", "0")>>

MethodsWith(defect) ==
    CASE defect = "method" ->
           <<Method(VOID_DEF, "f", <<>>, SayOk),
             Method(VOID_DEF, "f", <<>>, SayOk)>>
      [] defect = "overload" ->
           <<Method(VOID_DEF, "f", <<>>, SayOk),
             Method(VOID_DEF, "f", <<Param(INT_DEF, "a")>>, SayOk)>>
      [] OTHER -> <<Method(VOID_DEF, "f", <<>>, SayOk)>>

DefinitionProgram(defect, place, uses) ==
    LET body == IF uses /\ place # "main"
                THEN Begin(<<SayOk, NewAndCompare("other")>>)
                ELSE Begin(<<SayOk, CallS(ME_DEF, "f", <<>>)>>)
        entry == Method(VOID_DEF, MAIN_FUNC_DEF, <<>>, body)
        plain == Class(MAIN_CLASS_DEF, NoClass, <<>>,
                       <<entry, Method(VOID_DEF, "f", <<>>, SayOk)>>)
        other(super) ==
            Class("other", super, FieldsWith(defect), MethodsWith(defect))
    IN CASE place = "main" ->
              <<Class(MAIN_CLASS_DEF, NoClass, FieldsWith(defect),
                      <<entry>> \o MethodsWith(defect))>>
         [] place = "before" -> <<other(NoClass), plain>>
         [] place = "after" -> <<plain, other(NoClass)>>
         [] place = "sub" ->
              <<plain, Class("base", NoClass, <<>>, <<>>), other("base")>>

DefinitionPrograms ==
    {DefinitionProgram(defect, place, uses) :
        defect \in Defects, place \in Places, uses \in BOOLEAN}

\* some class of the program declares a field or a method twice
DeclaresTwice(parsed_program) ==
    \E k \in DOMAIN parsed_program :
        \/ \E i, j \in DOMAIN parsed_program[k].fields :
              /\ i # j
              /\ parsed_program[k].fields[i].name
                    = parsed_program[k].fields[j].name
        \/ \E i, j \in DOMAIN parsed_program[k].methods :
              /\ i # j
              /\ parsed_program[k].methods[i].method_name
                    = parsed_program[k].methods[j].method_name

\* programs by what they offer as the entry: no class main, a class main
\* without a method main, with a method main that takes a parameter, with
\* an inherited method main, with a method main that returns a value or
\* throws, and the plain case
Entries == {"absent", "nomethod", "withparam", "inherited", "value",
            "throws", "plain"}

StartProgram(entry) ==
    LET f == Method(VOID_DEF, "f", <<>>, SayOk)
        run == Begin(<<SayOk, CallS(ME_DEF, "f", <<>>)>>)
    IN CASE entry = "absent" ->
              <<Class("other", NoClass, <<>>,
                      <<Method(VOID_DEF, MAIN_FUNC_DEF, <<>>, run), f>>)>>
         [] entry = "nomethod" ->
              <<Class(MAIN_CLASS_DEF, NoClass, <<>>, <<f>>)>>
         [] entry = "withparam" ->
              <<Class(MAIN_CLASS_DEF, NoClass, <<>>,
                      <<Method(VOID_DEF, MAIN_FUNC_DEF,
                               <<Param(INT_DEF, "a")>>, run), f>>)>>
         [] entry = "inherited" ->
              <<Class("other", NoClass, <<>>,
                      <<Method(VOID_DEF, MAIN_FUNC_DEF, <<>>, run)>>),
                Class(MAIN_CLASS_DEF, "other", <<>>, <<f>>)>>
         [] entry = "value" ->
              <<Class(MAIN_CLASS_DEF, NoClass, <<>>,
                      <<Method(INT_DEF, MAIN_FUNC_DEF, <<>>,
                               Begin(<<run, ReturnS(Atom("5"))>>)), f>>)>>
         [] entry = "throws" ->
              <<Class(MAIN_CLASS_DEF, NoClass, <<>>,
                      <<Method(VOID_DEF, MAIN_FUNC_DEF, <<>>,
                               Begin(<<run, Throw(Atom("\"e\""))>>)), f>>)>>
         [] OTHER ->
              <<Class(MAIN_CLASS_DEF, NoClass, <<>>,
                      <<Method(VOID_DEF, MAIN_FUNC_DEF, <<>>, run), f>>)>>

StartPrograms == {StartProgram(entry) : entry \in Entries}

\* the program declares a class of this name
Declares(parsed_program, class_name) ==
    \E k \in DOMAIN parsed_program : parsed_program[k].name = class_name

\* operands of print, with the text the language gives each (none for an
\* object reference and for the call of a void method)
Printed ==
    <<[expr |-> Atom("7"), showable |-> TRUE, text |-> "7"],
      [expr |-> Atom("\"a\""), showable |-> TRUE, text |-> "a"],
      [expr |-> Atom("true"), showable |-> TRUE, text |-> "true"],
      [expr |-> Atom("false"), showable |-> TRUE, text |-> "false"],
      [expr |-> Bin("+", Atom("1"), Atom("2")), showable |-> TRUE,
       text |-> "3"],
      [expr |-> Bin("<", Atom("1"), Atom("2")), showable |-> TRUE,
       text |-> "true"],
      [expr |-> NewE(MAIN_CLASS_DEF), showable |-> FALSE, text |-> ""],
      [expr |-> CallE(ME_DEF, "f", <<>>), showable |-> FALSE, text |-> ""]>>

PrintOperands ==
    {<<i>> : i \in DOMAIN Printed}
    \cup {<<i, j>> : i \in DOMAIN Printed, j \in DOMAIN Printed}

PrintProgram(operands) ==
    <<Class(MAIN_CLASS_DEF, NoClass, <<>>,
        <<Method(VOID_DEF, MAIN_FUNC_DEF, <<>>,
            PrintS([i \in DOMAIN operands |-> Printed[operands[i]].expr])),
          Method(VOID_DEF, "f", <<>>, ReturnNothing)>>)>>

PrintPrograms == {PrintProgram(operands) : operands \in PrintOperands}

\* operands of an operator: an integer, a string, a boolean and references
\* to objects of two unrelated classes
Operands ==
    {Atom("1"), Atom("\"a\""), Atom("true"), NewE(MAIN_CLASS_DEF),
     NewE("other")}

Operators == {"+", "-", "==", "<", "&"}

Applications ==
    {Bin(operator, a1, a2) :
        operator \in Operators, a1 \in Operands, a2 \in Operands}
    \cup {Un("!", a1) : a1 \in Operands}

\* the value of the expression is printed, or returned from main
OperatorProgram(expr, place) ==
    <<Class(MAIN_CLASS_DEF, NoClass, <<>>,
        <<Method(VOID_DEF, MAIN_FUNC_DEF, <<>>,
            IF place = "print" THEN PrintS(<<expr>>) ELSE ReturnS(expr))>>),
      Class("other", NoClass, <<>>, <<>>)>>

OperatorPrograms ==
    {OperatorProgram(expr, place) :
        expr \in Applications, place \in {"print", "return"}}

\* x refers to an object of class made and y to one of class other; a
\* method of level A or of level B compares me with its argument
MeProgram(made, other, method) ==
    <<Class("A", NoClass, <<>>,
        <<Method(BOOL_DEF, "same", <<Param("A", "o")>>,
                 ReturnS(Bin("==", Atom(ME_DEF), Atom("o"))))>>),
      Class("B", "A", <<>>,
        <<Method(BOOL_DEF, "sameb", <<Param("A", "o")>>,
                 ReturnS(Bin("==", Atom(ME_DEF), Atom("o"))))>>),
      Class("C", "B", <<>>, <<>>),
      Class(MAIN_CLASS_DEF, NoClass, <<>>,
        <<Method(VOID_DEF, MAIN_FUNC_DEF, <<>>,
            Let(<<Local("A", "x", NULL_DEF), Local("A", "y", NULL_DEF)>>,
                <<SetS("x", NewE(made)), SetS("y", NewE(other)),
                  PrintS(<<CallE("x", method, <<Atom("x")>>)>>),
                  PrintS(<<CallE("x", method, <<Atom("y")>>)>>)>>))>>)>>

\* an instantiation of a blueprint compares me with its argument
MeGenericProgram(a, b) ==
    Declared("same") \o
    <<Class(MAIN_CLASS_DEF, NoClass, <<>>,
        <<Method(VOID_DEF, MAIN_FUNC_DEF, <<>>,
            Let(<<Local(Mangled("pair", a, b), "x", NULL_DEF),
                  Local(Mangled("pair", a, b), "y", NULL_DEF)>>,
                <<SetS("x", NewE(Mangled("pair", a, b))),
                  SetS("y", NewE(Mangled("pair", a, b))),
                  PrintS(<<CallE("x", "same", <<Atom("x")>>)>>),
                  PrintS(<<CallE("x", "same", <<Atom("y")>>)>>)>>))>>),
      Class("U", NoClass, <<>>, <<>>)>>

MePrograms ==
    {MeProgram(made, other, method) :
        made \in {"A", "B", "C"}, other \in {"A", "C"},
        method \in {"same", "sameb"}}
    \cup {MeGenericProgram(a, b) : a \in Actuals, b \in {INT_DEF}}

\* two objects of class box are made, the field v of one of them is
\* assigned once or twice, a third is made, and v of each is printed
IsolationProgram(assigned, values) ==
    <<Class("box", NoClass,
        <<Field(INT_DEF, "v", "5"), Field("box", "next", NULL_DEF)>>,
        <<Method(VOID_DEF, "put", <<Param(INT_DEF, "n")>>,
                 SetS("v", Atom("n"))),
          Method(INT_DEF, "get", <<>>, ReturnS(Atom("v")))>>),
      Class(MAIN_CLASS_DEF, NoClass,
        <<Field("box", "a", NULL_DEF), Field("box", "b", NULL_DEF),
          Field("box", "c", NULL_DEF)>>,
        <<Method(VOID_DEF, MAIN_FUNC_DEF, <<>>,
            Begin(<<SetS("a", NewE("box")), SetS("b", NewE("box"))>>
                  \o [i \in DOMAIN values |->
                         CallS(assigned, "put", <<Atom(values[i])>>)]
                  \o <<SetS("c", NewE("box")),
                       PrintS(<<CallE("a", "get", <<>>),
                                CallE("b", "get", <<>>),
                                CallE("c", "get", <<>>)>>)>>))>>)>>

IsolationPrograms ==
    {IsolationProgram(assigned, values) :
        assigned \in {"a", "b"}, values \in {<<"7">>, <<"1", "7">>}}

\* main calls, with its local x, a method that assigns to its formal, a
\* method that calls itself before it assigns to its formal, or a method
\* that reads x
ParamKinds == {"assign", "recursive", "locals"}

ParamProgram(kind) ==
    <<Class(MAIN_CLASS_DEF, NoClass, <<>>,
        <<Method(VOID_DEF, MAIN_FUNC_DEF, <<>>,
            Let(<<Local(INT_DEF, "x", "1")>>,
                CASE kind = "assign" ->
                       <<CallS(ME_DEF, "f", <<Atom("x")>>),
                         PrintS(<<Atom("x")>>)>>
                  [] kind = "recursive" ->
                       <<CallS(ME_DEF, "r", <<Atom("x")>>),
                         CallS(ME_DEF, "r", <<Atom("x")>>)>>
                  [] OTHER -> <<CallS(ME_DEF, "p", <<>>)>>)),
          Method(VOID_DEF, "f", <<Param(INT_DEF, "n")>>,
            Begin(<<SetS("n", Atom("7")), PrintS(<<Atom("n")>>)>>)),
          Method(VOID_DEF, "r", <<Param(INT_DEF, "n")>>,
            Begin(<<If(Bin("==", Atom("n"), Atom("1")),
                       CallS(ME_DEF, "r", <<Atom("2")>>)),
                    PrintS(<<Atom("n")>>), SetS("n", Atom("7"))>>)),
          Method(VOID_DEF, "p", <<>>, PrintS(<<Atom("x")>>))>>)>>

ParamPrograms == {ParamProgram(kind) : kind \in ParamKinds}

\* an object of class B (B inherits A; both declare v, A alone u, B alone
\* w) is asked to assign or read a field in a method of level A or B
LevelKinds ==
    {"seta", "setb", "getw", "getu", "setw", "setu"}

LevelProgram(kind) ==
    <<Class("A", NoClass,
        <<Field(INT_DEF, "v", "1"), Field(INT_DEF, "u", "5")>>,
        <<Method(INT_DEF, "geta", <<>>, ReturnS(Atom("v"))),
          Method(VOID_DEF, "seta", <<>>, SetS("v", Atom("7"))),
          Method(INT_DEF, "getw", <<>>, ReturnS(Atom("w"))),
          Method(VOID_DEF, "setw", <<>>, SetS("w", Atom("7")))>>),
      Class("B", "A",
        <<Field(INT_DEF, "v", "2"), Field(INT_DEF, "w", "0")>>,
        <<Method(INT_DEF, "getb", <<>>, ReturnS(Atom("v"))),
          Method(VOID_DEF, "setb", <<>>, SetS("v", Atom("7"))),
          Method(INT_DEF, "getu", <<>>, ReturnS(Atom("u"))),
          Method(VOID_DEF, "setu", <<>>, SetS("u", Atom("7")))>>),
      Class(MAIN_CLASS_DEF, NoClass, <<Field("B", "o", NULL_DEF)>>,
        <<Method(VOID_DEF, MAIN_FUNC_DEF, <<>>,
            Begin(<<SetS("o", NewE("B")),
                    IF kind \in {"getw", "getu"}
                    THEN PrintS(<<CallE("o", kind, <<>>)>>)
                    ELSE CallS("o", kind, <<>>),
                    PrintS(<<CallE("o", "geta", <<>>),
                             CallE("o", "getb", <<>>)>>)>>))>>)>>

LevelPrograms == {LevelProgram(kind) : kind \in LevelKinds}

Programs ==
    LevelPrograms \cup ParamPrograms \cup IsolationPrograms \cup MePrograms \cup OperatorPrograms \cup PrintPrograms \cup DispatchPrograms \cup ControlPrograms \cup AssignPrograms
    \cup ResolvePrograms \cup NullPrograms \cup ReturnPrograms
    \cup GenericPrograms \cup DefinitionPrograms \cup StartPrograms

(***************************************************************************)
(* Interpreter.run                                                         *)
(***************************************************************************)
\* programs a caller runs on an Interpreter that has run before: they
\* declare classes of the same names with different members, blueprints,
\* and instantiate blueprints while they run
Reruns ==
    StartPrograms
    \cup {DefinitionProgram(defect, place, TRUE) :
            defect \in {"none", "field"}, place \in {"before", "sub"}}
    \cup {GenericProgram(blueprint, trigger, INT_DEF, STRING_DEF) :
            blueprint \in {"field", "mutual"},
            trigger \in {"mainfield", "new"}}

\* what a caller does with one Interpreter: one run, or two in a row
Scripts ==
    {<<parsed_program>> : parsed_program \in Programs}
    \cup {<<first, second>> : first \in Reruns, second \in Reruns}

\* faulty variant: the registries of the last run are built upon
StaleRegistry(parsed_program) ==
    Registry(class_index, template_class_index,
             add_all_class_types_to_type_manager(type_manager,
                                                 parsed_program),
             <<>>)

\* the registries run() starts from: __add_all_class_types_to_type_manager
\* makes a new TypeManager, __map_class_names_to_class_defs new indexes
FreshRegistry(parsed_program) ==
    Registry(EmptyIndex, EmptyTemplateIndex,
             add_all_class_types_to_type_manager(TypeManager,
                                                 parsed_program),
             <<>>)

\* Interpreter.run, on a new Interpreter or on one that has run before;
\* nothing of an earlier run's objects, environments and activations can be
\* reached from the new run
Run(parsed_program) ==
    /\ phase \in {"idle", "done"}
    /\ again' = (phase = "done")
    /\ LET call(main) ==
               /\ Rebind(main.reg)
               /\ IF main.reg.err # "none"
                  THEN /\ error' = main.reg.err
                       /\ phase' = "done"
                       /\ objs' = <<>>
                       /\ stack' = <<>>
                  ELSE /\ phase' = "running"
                       /\ objs' = main.os
                       /\ stack' = <<CallMethodFrame(1, MAIN_FUNC_DEF, <<>>,
                                                     FALSE, 0)>>
                       /\ error' = "none"
           start(built) ==
               call(IF built.err # "none" THEN [reg |-> built, os |-> <<>>]
                    ELSE instantiate(built, <<>>, MAIN_CLASS_DEF))
       IN start(map_class_names_to_class_defs(FreshRegistry(parsed_program),
                                              parsed_program))
    /\ envs' = <<>> /\ ret' = NoRet /\ output' = <<>>

RunProgram ==
    /\ phase \in {"idle", "done"} /\ pending # <<>>
    /\ pending' = Tail(pending)
    /\ Run(Head(pending))

\* run() returns once the call of main has: its value is dropped
Finish ==
    /\ phase = "running" /\ error = "none" /\ stack = <<>>
    /\ phase' = "done"
    /\ UNCHANGED <<session, objs, envs, stack, ret,
                   error, output>>

Init ==
    /\ phase = "idle"
    /\ pending \in Scripts
    /\ again = FALSE
    /\ class_index = EmptyIndex
    /\ template_class_index = EmptyTemplateIndex
    /\ type_manager = TypeManager
    /\ constructed = <<>>
    /\ objs = <<>>
    /\ envs = <<>>
    /\ stack = <<>>
    /\ ret = NoRet
    /\ error = "none"
    /\ output = <<>>

Next ==
    \/ RunProgram
    \/ CallMethod
    \/ ExecuteBegin
    \/ ExecuteSet
    \/ ExecuteIf
    \/ ExecuteWhile
    \/ ExecuteReturn
    \/ ExecuteThrow
    \/ ExecuteTry
    \/ ExecutePrint
    \/ ExecuteInput
    \/ ExecuteCallAux
    \/ EvaluateExpression
    \/ Finish

Spec == Init /\ [][Next]_vars

(***************************************************************************)
(* An EnvironmentManager on its own: its caller nests and leaves blocks,   *)
(* creates symbols and sets them, in any order.                            *)
(***************************************************************************)
MaxFrames == 3     \* frames of the EnvironmentManager

Symbols == {"a", "b"}

Bindings ==
    {VariableDef(INT_DEF, symbol, Value(INT_DEF, n)) :
        symbol \in Symbols, n \in {1, 2}}

EnvInit ==
    /\ phase = "idle"
    /\ pending = <<>>
    /\ again = FALSE
    /\ class_index = EmptyIndex
    /\ template_class_index = EmptyTemplateIndex
    /\ type_manager = TypeManager
    /\ constructed = <<>>
    /\ objs = <<>>
    /\ envs = <<EnvironmentManager>>
    /\ stack = <<>>
    /\ ret = NoRet
    /\ error = "none"
    /\ output = <<>>

\* an EnvironmentManager touches nothing of the Interpreter
EnvOnly == UNCHANGED <<phase, session, objs, stack, ret, error, output>>

EnvCreateNewSymbol ==
    /\ \E symbol \in Symbols :
           envs' = <<create_new_symbol(envs[1], symbol).env>>
    /\ EnvOnly

EnvSet ==
    /\ \E value \in Bindings :
           envs' = <<set(envs[1], value.name, value).env>>
    /\ EnvOnly

EnvBlockNest ==
    /\ Len(envs[1]) < MaxFrames
    /\ envs' = <<block_nest(envs[1])>>
    /\ EnvOnly

\* a block that was entered is left
EnvBlockUnnest ==
    /\ Len(envs[1]) > 1
    /\ envs' = <<block_unnest(envs[1])>>
    /\ EnvOnly

EnvNext ==
    \/ EnvCreateNewSymbol
    \/ EnvSet
    \/ EnvBlockNest
    \/ EnvBlockUnnest

EnvSpec == EnvInit /\ [][EnvNext]_vars

(***************************************************************************)
(* Properties                                                              *)
(***************************************************************************)
\* the levels reached from level o along super_object, o first
RECURSIVE ChainFrom(_, _, _)
ChainFrom(os, o, fuel) ==
    IF o = NoObj \/ fuel = 0 THEN <<>>
    ELSE <<o>> \o ChainFrom(os, os[o].super_object, fuel - 1)

ChainOf(o) == ChainFrom(objs, o, Len(objs))

\* the class names from class_name up to its root ancestor
RECURSIVE Ancestry(_, _)
Ancestry(index, class_name) ==
    IF class_name = NoClass THEN <<>>
    ELSE <<class_name>> \o Ancestry(index, index[class_name].super_class)

AnchorOf(o) == objs[o].anchor_object

\* the position of level o in its instance, 1 for the most-derived level
LevelIndex(o) ==
    CHOOSE i \in 1..Len(ChainOf(AnchorOf(o))) : ChainOf(AnchorOf(o))[i] = o

\* level o declares a method of this name whose formal parameters are as
\* many as the arguments and each of a type the argument's type is
\* compatible with
Fits(o, method_name, actual_params) ==
    \E i \in DOMAIN class_index[objs[o].class_def].methods :
        LET method_def == class_index[objs[o].class_def].methods[i]
        IN /\ method_def.method_name = method_name
           /\ Len(method_def.formal_params) = Len(actual_params)
           /\ \A j \in DOMAIN actual_params :
                  check_type_compatibility(type_manager,
                      method_def.formal_params[j].type,
                      actual_params[j].t, TRUE)

\* the first level of a chain that fits, NoObj when none does
FirstFit(chain, method_name, actual_params) ==
    IF \E i \in DOMAIN chain : Fits(chain[i], method_name, actual_params)
    THEN chain[CHOOSE i \in DOMAIN chain :
                 /\ Fits(chain[i], method_name, actual_params)
                 /\ \A j \in 1..(i - 1) :
                        ~Fits(chain[j], method_name, actual_params)]
    ELSE NoObj

CallFrames == {i \in DOMAIN stack : stack[i].kind = "call_method"}

\* the call_method activation i was stopped by interpreter.error
Refused(i) == i = Len(stack) /\ stack[i].pc = "start" /\ error # "none"

\* the call_method activation i is running the body of a method
Executing(i) == stack[i].pc = "body"

\* C1 (as amended): a call that is not through super, on an instance whose
\* most-derived class declares a method fitting the call, runs that
\* most-derived method and never an ancestor's, provided the level the call
\* is issued on or one of its ancestors declares a fitting method too;
\* otherwise the call is refused with NAME_ERROR and runs no method.
C1_DynamicDispatch ==
    \A i \in CallFrames :
        LET f == stack[i]
            fromSelf == FirstFit(ChainOf(f.self), f.method_name, f.vals)
        IN (~f.super_only /\ Fits(AnchorOf(f.self), f.method_name, f.vals))
           => /\ Executing(i) => f.obj = AnchorOf(f.self) /\ fromSelf # NoObj
              /\ Refused(i) => error = "NAME_ERROR" /\ fromSelf = NoObj

\* C1 (as claimed): such a call always runs the most-derived method; it is
\* never refused.
C1_AsClaimed ==
    \A i \in CallFrames :
        LET f == stack[i]
        IN (~f.super_only /\ Fits(AnchorOf(f.self), f.method_name, f.vals))
           => /\ Executing(i) => f.obj = AnchorOf(f.self)
              /\ ~Refused(i)

\* C1 witness: a call on me issued at a base level runs the method of the
\* most-derived level.
C1_Witness ==
    \E i \in CallFrames :
        /\ Executing(i) /\ ~stack[i].super_only
        /\ stack[i].self # AnchorOf(stack[i].self)
        /\ stack[i].obj = AnchorOf(stack[i].self)
        /\ Fits(stack[i].self, stack[i].method_name, stack[i].vals)

\* the level that issued the call activation i serves
IssuingLevel(i) == stack[i - 1].self

\* C2: a call through super issued at level L runs a method of a level
\* strictly below L, the first one below L that fits; and when every level
\* of a three-level instance overrides m and calls super.m, the three
\* methods run once each, most-derived first.
SuperChainIndexes ==
    {map_class_names_to_class_defs(
         Registry(EmptyIndex, EmptyTemplateIndex,
                  add_all_class_types_to_type_manager(TypeManager, prog),
                  <<>>),
         prog).class_index :
     prog \in {DispatchProgram([i \in 1..3 |-> "m()"], "C", "super", <<>>),
               DispatchProgram([i \in 1..3 |-> "m(A)"], "C", "super",
                               <<NewE("A")>>),
               DispatchProgram([i \in 1..3 |-> "m(A)"], "C", "super",
                               <<NewE("C")>>),
               DispatchProgram([i \in 1..3 |-> "m(C)"], "C", "super",
                               <<NewE("C")>>)}}

IsPrefix(a, b) == Len(a) <= Len(b) /\ a = SubSeq(b, 1, Len(a))

C2_SuperBelow ==
    /\ \A i \in CallFrames :
           (stack[i].super_only /\ Executing(i))
           => /\ LevelIndex(stack[i].obj) > LevelIndex(IssuingLevel(i))
              /\ stack[i].obj =
                    FirstFit(ChainOf(objs[IssuingLevel(i)].super_object),
                             stack[i].method_name, stack[i].vals)
    /\ class_index \in SuperChainIndexes
       => /\ IsPrefix(output, <<"C", "B", "A">>)
          /\ error = "none"
          /\ phase = "done" => output = <<"C", "B", "A">>

\* C2 witness: the second super call of a three-level chain is running the
\* root's method.
C2_Witness ==
    /\ class_index \in SuperChainIndexes
    /\ output = <<"C", "B", "A">>
    /\ \E i \in CallFrames :
           /\ stack[i].super_only /\ Executing(i)
           /\ LevelIndex(stack[i].obj) = 3
           /\ LevelIndex(IssuingLevel(i)) = 2

DerivedOnlyCall(i) ==
    /\ ~stack[i].super_only
    /\ stack[i].self # AnchorOf(stack[i].self)
    /\ FirstFit(ChainOf(AnchorOf(stack[i].self)), stack[i].method_name,
                stack[i].vals) # NoObj
    /\ FirstFit(ChainOf(stack[i].self), stack[i].method_name,
                stack[i].vals) = NoObj

\* C4 (as amended): a call that is not through super and that call_method
\* lets through runs the first fitting level found from the anchor, whatever
\* level issued it; but call_method lets a call through only when a level on
\* the chain of the issuing level fits, so a call on me from a base level for
\* a method declared at a more-derived level only is refused with NAME_ERROR.
C4_SearchFromAnchor ==
    \A i \in CallFrames :
        ~stack[i].super_only
        => /\ Executing(i)
              => stack[i].obj = FirstFit(ChainOf(AnchorOf(stack[i].self)),
                                         stack[i].method_name, stack[i].vals)
           /\ DerivedOnlyCall(i)
              => /\ ~Executing(i)
                 /\ i = Len(stack)
                 /\ error \in {"none", "NAME_ERROR"}

\* C4 (as claimed): such a call on me does not fail with unknown method.
C4_AsClaimed ==
    \A i \in CallFrames : DerivedOnlyCall(i) => ~Refused(i)

\* C4 witness: a call on me from a base level for a method of a more-derived
\* level has been refused.
C4_Witness ==
    \E i \in CallFrames :
        DerivedOnlyCall(i) /\ Refused(i) /\ error = "NAME_ERROR"

\* C5: an instance of a class with N ancestors is N+1 levels, one per class
\* from the class itself to its root ancestor in that order, linked by
\* super_object, the last with no super_object, and every level's
\* anchor_object is the most-derived level.
C5_LevelsAndAnchor ==
    \A o \in DOMAIN objs :
        /\ AnchorOf(AnchorOf(o)) = AnchorOf(o)
        /\ \E i \in DOMAIN ChainOf(AnchorOf(o)) : ChainOf(AnchorOf(o))[i] = o
        /\ AnchorOf(o) = o
           => LET chain == ChainOf(o)
                  classes == Ancestry(class_index, objs[o].class_def)
              IN /\ Len(chain) = Len(classes)
                 /\ \A i \in DOMAIN chain :
                        /\ objs[chain[i]].class_def = classes[i]
                        /\ objs[chain[i]].anchor_object = o
                 /\ objs[chain[Len(chain)]].super_object = NoObj

\* C5 witness: an instance of a class with two ancestors has been built.
C5_Witness ==
    \E o \in DOMAIN objs :
        /\ AnchorOf(o) = o
        /\ Len(Ancestry(class_index, objs[o].class_def)) = 3
        /\ Len(ChainOf(o)) = 3

\* the environment of the method the activation i belongs to
EnvIndexOf(i) ==
    Cardinality({j \in 1..i : stack[j].kind = "call_method"
                              /\ stack[j].pc = "body"})

\* C6: when a statement of any kind finishes, with any status, the
\* environment of its method is as deep as it was when the statement
\* started; while it runs the environment is never shallower than that; and
\* no environment is ever without a frame.
C6_FramesBalanced ==
    /\ \A k \in DOMAIN envs : Len(envs[k]) >= 1
    /\ (ret.by \in StmtKinds /\ envs # <<>>) => Len(Env) = ret.depth0
    /\ \A i \in DOMAIN stack :
           (stack[i].kind \in StmtKinds /\ EnvIndexOf(i) \in DOMAIN envs)
           => stack[i].depth0 <= Len(envs[EnvIndexOf(i)])

\* C6 witness: a let whose body threw has finished inside an enclosing
\* block that has a frame of its own, and the environment is back to the
\* depth it had.
C6_Witness ==
    /\ ret.by = "let" /\ ret.status = STATUS_EXCEPTION
    /\ envs # <<>> /\ Len(Env) = ret.depth0 /\ ret.depth0 = 2

\* an EXCEPTION has been yielded and the run goes on
Propagating == Running /\ ret.status = STATUS_EXCEPTION

\* the activation on top is a try whose protected block has just finished
AtTryBlock == Top.kind = "try" /\ Top.pc = "block"

\* C7: while an EXCEPTION is yielded, every step either is the try around
\* the throw point starting its catch block, or ends the activation on top
\* and hands the same EXCEPTION with the same payload to the one below it:
\* no activation is started, nothing is printed, no object and no binding
\* changes; so the EXCEPTION of a throw with no try around it comes out of
\* the invocation of the entry method with the thrown payload.
C7_Step ==
    Propagating
    => IF AtTryBlock
       THEN /\ Len(stack') = Len(stack) + 1
            /\ stack'[Len(stack)].pc = "catch"
       ELSE /\ stack' = Pop
            /\ ret'.status = STATUS_EXCEPTION
            /\ ValEq(ret'.value, ret.value)
            /\ error' = "none"
            /\ output' = output
            /\ objs' = objs
            /\ \/ envs' = envs
               \/ envs' = [envs EXCEPT ![Len(envs)] = block_unnest(@)]
               \/ envs' = SubSeq(envs, 1, Len(envs) - 1)

C7_ExceptionPropagates == [][C7_Step]_vars

\* C7 witness: the EXCEPTION of a throw three calls deep has come out of the
\* invocation of the entry method with its payload, and nothing was printed.
C7_Witness ==
    /\ stack = <<>> /\ ret.by = "call_method"
    /\ ret.status = STATUS_EXCEPTION
    /\ ~IsNone(ret.value) /\ ~ret.value.n /\ ret.value.v = "deep"
    /\ output = <<>>

\* the class index Run builds for a program
IndexOf(prog) ==
    map_class_names_to_class_defs(
        Registry(EmptyIndex, EmptyTemplateIndex,
                 add_all_class_types_to_type_manager(TypeManager, prog),
                 <<>>),
        prog).class_index

\* the method whose body the activation on top has just run
ReturningMethod ==
    MethodOf(class_index, objs, Top.obj, Top.method_name)

\* C8: call_method never yields RETURN; when the body of the method has
\* finished, the call yields PROCEED with the returned value when the body
\* returned one, PROCEED with the default value of the declared return type
\* when the body returned none or finished without returning, and the
\* caller's activations are untouched; so the caller goes on: after an int
\* method returned nothing, main prints 0 and then "end".
C8_Step ==
    (Running /\ Top.kind = "call_method" /\ Top.pc = "body")
    => /\ stack' = Pop
       /\ ret'.by = "call_method"
       /\ (ret.status = STATUS_RETURN /\ ~IsNone(ret.value))
          => ret'.status = STATUS_PROCEED /\ ValEq(ret'.value, ret.value)
       /\ (ret.status = STATUS_PROCEED
           \/ (ret.status = STATUS_RETURN /\ IsNone(ret.value)))
          => /\ ret'.status = STATUS_PROCEED
             /\ ValEq(ret'.value,
                      create_default_value(ReturningMethod.return_type))

C8_ReturnConsumed ==
    /\ [](ret.by = "call_method"
          => ret.status \in {STATUS_PROCEED, STATUS_EXCEPTION})
    /\ []((phase = "done"
           /\ class_index \in {IndexOf(ControlProgram(ReturnNothing)),
                               IndexOf(ControlProgram(IncX))})
          => output = <<"0", "end">>)
    /\ [][C8_Step]_vars

\* C8 witness: the run of the program whose int method returns nothing has
\* ended with 0 and "end" printed.
C8_Witness ==
    /\ phase = "done"
    /\ class_index = IndexOf(ControlProgram(ReturnNothing))
    /\ output = <<"0", "end">>

\* the try activations of environment k whose catch block is running
Catching(k) ==
    {i \in DOMAIN stack : /\ stack[i].kind = "try" /\ stack[i].pc = "catch"
                          /\ EnvIndexOf(i) = k}

Innermost(is) == CHOOSE i \in is : \A j \in is : j <= i

IsThrown(var_def, thrown) ==
    /\ ~IsNoVarDef(var_def)
    /\ var_def.type = STRING_DEF
    /\ ValEq(var_def.value, thrown)

\* C9: the catch block is started exactly when the protected block yields
\* EXCEPTION, in an environment with one more frame that holds the exception
\* variable alone, bound to the thrown value; the try then yields what the
\* catch block yields and takes that frame off, and otherwise yields what
\* the protected block yielded; at all times the exception variable is the
\* thrown value of the innermost running catch block of the method, and is
\* unbound when no catch block of the method is running.
C9_Step ==
    (Running /\ Top.kind = "try" /\ Top.pc # "start")
    => IF Top.pc = "block" /\ ret.status = STATUS_EXCEPTION
       THEN /\ Len(stack') = Len(stack) + 1
            /\ stack'[Len(stack)].pc = "catch"
            /\ stack'[Len(stack')].node = Top.node.catch
            /\ Len(Env') = Len(Env) + 1
            /\ SubSeq(Env', 1, Len(Env)) = Env
            /\ DOMAIN Env'[Len(Env')] = {EXCEPTION_VARIABLE_DEF}
            /\ IsThrown(Env'[Len(Env')][EXCEPTION_VARIABLE_DEF], ret.value)
       ELSE /\ stack' = Pop
            /\ ret'.status = ret.status
            /\ ValEq(ret'.value, ret.value)
            /\ Env' = IF Top.pc = "catch" THEN block_unnest(Env) ELSE Env

C9_Bound ==
    \A k \in DOMAIN envs :
        IF Catching(k) = {}
        THEN IsNoVarDef(get(envs[k], EXCEPTION_VARIABLE_DEF))
        ELSE IsThrown(get(envs[k], EXCEPTION_VARIABLE_DEF),
                      stack[Innermost(Catching(k))].vals[1])

C9_TryCatch == []C9_Bound /\ [][C9_Step]_vars

\* C9 witness: a try inside a catch block has caught and finished, and the
\* exception variable is again the thrown value of the enclosing catch.
C9_Witness ==
    /\ ret.by = "try" /\ ret.status = STATUS_PROCEED
    /\ envs # <<>> /\ Catching(Len(envs)) # {}
    /\ Top.kind \in {"begin", "let"}
    /\ output # <<>>
    /\ IsThrown(get(Env, EXCEPTION_VARIABLE_DEF),
                stack[Innermost(Catching(Len(envs)))].vals[1])

\* C10 (as claimed): every EXCEPTION carries a string that is not null.
C10_AsClaimed ==
    ret.status = STATUS_EXCEPTION
    => /\ ~IsNone(ret.value)
       /\ ret.value.t = STRING_DEF
       /\ ~is_null(ret.value)

\* the statements of the control programs that raise a host error, each
\* with the error it raises: a throw of an int, a read of an unbound name,
\* and a call of a method that calls through a null reference
ErrorLeaf ==
    [TYPE_ERROR |-> Throw(Atom("x")),
     NAME_ERROR |-> PrintS(<<Atom(EXCEPTION_VARIABLE_DEF)>>),
     FAULT_ERROR |-> CallS(ME_DEF, "b", <<>>)]

\* C11: a host error ends the run where it is raised: nothing but another
\* call of run is enabled afterwards, the activations, among them every try whose protected block
\* was running, stay as they were, and a step that raises it changes nothing
\* else (a call of run that raises it starts nothing); a program whose only statement under a try (or under any other
\* enclosing statement) raises TYPE_ERROR, NAME_ERROR or FAULT_ERROR ends
\* with that error and with no output, so its catch block never ran.
C11_Step ==
    (error = "none" /\ error' # "none")
    => /\ phase' = "done"
       /\ IF pending' = pending
          THEN UNCHANGED <<stack, envs, ret, output, objs>>
          ELSE stack' = <<>> /\ envs' = <<>> /\ output' = <<>> /\ objs' = <<>>

TargetOf(env, os, self, name) ==
    IF FrameOf(env, name) # 0 THEN get(env, name)
    ELSE IF name \in DOMAIN os[self].fields THEN os[self].fields[name]
    ELSE NoVarDef

\* a set statement is about to store the value of its evaluated operand
Storing ==
    /\ Running /\ Top.kind = "set" /\ Top.pc = "expr"
    /\ ret.status # STATUS_EXCEPTION /\ ~IsNone(ret.value)

\* type sub is type super or a class that inherits from it, as declared
IsOrInherits(sub, super) ==
    \/ sub = super
    \/ /\ sub \in DOMAIN class_index
       /\ \E i \in DOMAIN Ancestry(class_index, sub) :
              Ancestry(class_index, sub)[i] = super

\* C12: an assignment to a local, a parameter or a field stores the value
\* when the value's type is the target's declared type or a subclass of it;
\* when the value's type is a superclass of the declared type or unrelated
\* to it, TYPE_ERROR is raised and no variable or field changes.
C12_Step ==
    (Storing /\ ~IsNoVarDef(TargetOf(Env, objs, Top.self, Top.node.name))
             /\ ret.value.t # NULL_DEF)
    => LET target == TargetOf(Env, objs, Top.self, Top.node.name)
       IN IF IsOrInherits(ret.value.t, target.type)
          THEN /\ error' = "none"
               /\ TargetOf(envs'[Len(envs')], objs', Top.self,
                           Top.node.name)
                    = [target EXCEPT !.value = ret.value]
          ELSE /\ error' = "TYPE_ERROR"
               /\ UNCHANGED <<envs, objs>>

C12_AssignmentTyping == [][C12_Step]_vars

\* C12 witness: an A was refused by a parameter declared B, which still
\* holds the B it was called with.
C12_Witness ==
    /\ error = "TYPE_ERROR" /\ stack # <<>> /\ Top.kind = "set"
    /\ Top.pc = "expr" /\ ~IsNone(ret.value) /\ ret.value.t = "A"
    /\ FrameOf(Env, "x") # 0
    /\ get(Env, "x").type = "B" /\ get(Env, "x").value.t = "B"
    /\ ~get(Env, "x").value.n /\ Len(stack) > 3

\* a statement is about to assign a value it has obtained to a name
Assigning ==
    \/ Storing
    \/ Running /\ Top.kind \in {INPUT_STRING_DEF, INPUT_INT_DEF}

\* val is a value the assigning statement on top may have obtained
Obtained(val) ==
    CASE Top.kind = "set" -> ValEq(val, ret.value)
      [] Top.kind = INPUT_STRING_DEF ->
            val.t = STRING_DEF /\ ~val.n /\ val.v \in InputLines
      [] Top.kind = INPUT_INT_DEF ->
            /\ val.t = INT_DEF /\ ~val.n
            /\ \E inp \in InputLines :
                   ParseInt(inp).ok /\ val.v = ParseInt(inp).value

\* C13: set, inputs and inputi assign to the nearest scope-frame binding of
\* the target name when some frame binds it, and then no field changes;
\* else to the field of that name of the executing level; else they raise
\* NAME_ERROR.  Nothing but the resolved binding changes.  (A line that
\* inputi cannot read as an integer ends the run before the target is
\* looked up.)
C13_Step ==
    (Assigning /\ error' # "ValueError")
    => LET name == Top.node.name
           n == Len(envs)
           k == FrameOf(Env, name)
           self == Top.self
       IN IF k # 0
          THEN /\ error' \in {"none", "TYPE_ERROR"}
               /\ objs' = objs
               /\ envs' = [envs EXCEPT ![n][k][name] = envs'[n][k][name]]
               /\ error' = "none" => Obtained(envs'[n][k][name].value)
               /\ error' # "none" => envs' = envs
          ELSE IF name \in DOMAIN objs[self].fields
          THEN /\ error' \in {"none", "TYPE_ERROR"}
               /\ envs' = envs
               /\ objs' = [objs EXCEPT ![self].fields[name] =
                              objs'[self].fields[name]]
               /\ error' = "none"
                  => Obtained(objs'[self].fields[name].value)
               /\ error' # "none" => objs' = objs
          ELSE error' = "NAME_ERROR" /\ UNCHANGED <<envs, objs>>

C13_TargetResolution == [][C13_Step]_vars

\* C13 witness: inputi has stored 5 in the innermost of two locals x that
\* shadow a field x; the outer local and the field still hold 0.
C13_Witness ==
    /\ phase = "running" /\ ret.by = INPUT_INT_DEF /\ envs # <<>>
    /\ Len(Env) >= 3 /\ FrameOf(Env, "x") = Len(Env)
    /\ get(Env, "x").value.v = 5
    /\ "x" \in DOMAIN Env[Len(Env) - 1]
    /\ Env[Len(Env) - 1]["x"].value.v = 0
    /\ "x" \in DOMAIN objs[1].fields /\ objs[1].fields["x"].value.v = 0

\* the variable or field an operand that is a name reads
Operand(expr) ==
    IF expr.op = "atom" THEN TargetOf(Env, objs, Top.self, expr.tok)
    ELSE NoVarDef

\* the variable or field holds null and is declared with a class type
NullOfClass(var_def) ==
    /\ ~IsNoVarDef(var_def) /\ var_def.value.n
    /\ var_def.type \in DOMAIN class_index

\* == is about to be applied to the values read from two variables or
\* fields that hold null and are declared with two different class types
ComparingNulls ==
    /\ Running /\ Top.kind = "expr" /\ Top.pc = "op2"
    /\ Top.node.op = "==" /\ ret.status # STATUS_EXCEPTION
    /\ NullOfClass(Operand(Top.node.a1))
    /\ NullOfClass(Operand(Top.node.a2))
    /\ Operand(Top.node.a1).type # Operand(Top.node.a2).type

YieldsTrue == error' = "none" /\ ret'.value.t = BOOL_DEF /\ ret'.value.v

\* the two class types are related by inheritance, one way or the other
Related(type_a, type_b) ==
    IsOrInherits(type_a, type_b) \/ IsOrInherits(type_b, type_a)

\* C14 (as claimed): == on two nulls of different class types never yields
\* true, whether the classes are unrelated or one inherits from the other.
C14_StepAsClaimed == ComparingNulls => ~YieldsTrue

C14_Step ==
    ComparingNulls
    => IF Related(Operand(Top.node.a1).type, Operand(Top.node.a2).type)
       THEN YieldsTrue
       ELSE error' = "TYPE_ERROR" /\ UNCHANGED <<ret, stack, output>>

Returning ==
    /\ Running /\ Top.kind = "return" /\ Top.pc = "expr"
    /\ ret.status # STATUS_EXCEPTION /\ ~IsNone(ret.value)

\* the return statement on top hands val back to the method call
HandsBack(val) ==
    /\ error' = "none" /\ stack' = Pop
    /\ ret'.status = STATUS_RETURN /\ ret'.by = "return"
    /\ ValEq(ret'.value, val)

\* C15: a return whose operand is a typeless null hands back a null of the
\* declared return type when that type is a class, and raises TYPE_ERROR
\* when it is a primitive type or void; any other value is handed back
\* unchanged when its type is the declared return type or a subclass of it,
\* and TYPE_ERROR is raised otherwise.
C15_Step ==
    Returning
    => IF is_typeless_null(ret.value)
       THEN IF Top.return_type \in DOMAIN class_index
            THEN HandsBack(NullValue(Top.return_type))
            ELSE error' = "TYPE_ERROR" /\ UNCHANGED <<stack, ret>>
       ELSE IF IsOrInherits(ret.value.t, Top.return_type)
            THEN HandsBack(ret.value)
            ELSE error' = "TYPE_ERROR" /\ UNCHANGED <<stack, ret>>

C15_ReturnTyping == [][C15_Step]_vars

\* C15 witness: the null literal was returned from a method declared to
\* return B and came back as a null of type B.
C15_Witness ==
    /\ ret.by = "return" /\ ret.status = STATUS_RETURN
    /\ is_null(ret.value) /\ ret.value.t = "B"
    /\ stack # <<>> /\ Top.kind = "call_method" /\ Top.method_name = "r"

\* how many times ClassDef.__init__ was called with this name
Constructions(name) ==
    Cardinality({i \in DOMAIN constructed : constructed[i] = name})

\* the compound names among the classes constructed so far
Instantiated ==
    {constructed[i] : i \in DOMAIN constructed} \ {MAIN_CLASS_DEF, "U"}

\* a program of the generic family is running or has run
Generic == phase # "idle" /\ DOMAIN template_class_index # {}

\* C16: an instantiation of a blueprint that refers to its own
\* instantiation, or of two blueprints that refer to each other's, never
\* exhausts the recursion: through a field, a parameter or a return type of
\* a class body, through a let-local and through new alike, it is over
\* after at most two constructions of each mangled name, with a
\* constructed class registered under every name it met.
C16_InstantiationTerminates ==
    /\ error # "RecursionError"
    /\ \A name \in Instantiated : Constructions(name) <= 2
    /\ (Generic /\ error = "none")
       => \A name \in DOMAIN class_index : class_index[name] # NoClassDef

\* C16 witness: new ping@int has returned an object after ping@int,
\* pong@int and ping@int again were constructed.
C16_Witness ==
    /\ constructed
           = <<MAIN_CLASS_DEF, "U", "ping@int", "pong@int", "ping@int">>
    /\ ret.by = "expr" /\ ret.status = STATUS_PROCEED
    /\ ~IsNone(ret.value) /\ ret.value.t = "ping@int" /\ ~is_null(ret.value)

\* the blueprints a program of the generic family declares, as
\* template_class_index holds them
DeclaredIndex(blueprint) ==
    LET items == Declared(blueprint)
    IN [name \in {items[i].name : i \in DOMAIN items} |->
          LET item == items[CHOOSE i \in DOMAIN items : items[i].name = name]
          IN [name |-> name, templated_types |-> item.templated_types,
              class_source |-> item]]

\* the class a blueprint of the generic family stands for once its
\* parameters are written out as a (and b)
Written(blueprint, base, a, b) ==
    LET v == VariableDef(a, "v", create_default_value(a))
        none == NullValue(NULL_DEF)
        class(name, fields, methods) ==
            [name |-> name, super_class |-> NoClass, fields |-> fields,
             methods |-> methods]
        method(return_type, method_name, formal_params, code) ==
            [method_name |-> method_name, return_type |-> return_type,
             formal_params |-> formal_params, code |-> code]
    IN CASE blueprint = "field" ->
              class("node@" \o a,
                    <<v, VariableDef("node@" \o a, "next", none)>>,
                    <<method(a, "get", <<>>, ReturnS(Atom("v")))>>)
         [] blueprint = "param" ->
              class("node@" \o a, <<v>>,
                    <<method(NOTHING_DEF, "put",
                             <<VariableDef("node@" \o a, "n", NoValue)>>,
                             SetS("v", CallE("n", "peek", <<>>))),
                      method(a, "peek", <<>>, ReturnS(Atom("v")))>>)
         [] blueprint = "return" ->
              class("node@" \o a, <<v>>,
                    <<method("node@" \o a, "get", <<>>,
                             ReturnS(Atom(NULL_DEF)))>>)
         [] blueprint = "mutual" /\ base = "ping" ->
              class("ping@" \o a,
                    <<VariableDef("pong@" \o a, "q", none)>>, <<>>)
         [] blueprint = "mutual" /\ base = "pong" ->
              class("pong@" \o a,
                    <<VariableDef("ping@" \o a, "p", none), v>>, <<>>)
         [] blueprint = "pair" ->
              class("pair@" \o a \o "@" \o b,
                    <<VariableDef(a, "first", create_default_value(a)),
                      VariableDef(b, "second", create_default_value(b))>>,
                    <<method("pair@" \o b \o "@" \o a, "swap", <<>>,
                             ReturnS(Atom(NULL_DEF)))>>)
         [] blueprint = "same" ->
              class("pair@" \o a \o "@" \o b, <<>>,
                    <<method(BOOL_DEF, "same",
                             <<VariableDef("pair@" \o a \o "@" \o b, "o",
                                           NoValue)>>,
                             ReturnS(Bin("==", Atom(ME_DEF), Atom("o"))))>>)

\* class_def is the blueprint with some actual arguments written out, and
\* name the mangled name of these arguments
IsWritten(blueprint, name, class_def) ==
    \E base \in DOMAIN DeclaredIndex(blueprint), a \in Actuals,
       b \in Actuals :
        LET written == Written(blueprint, base, a, b)
            params == DeclaredIndex(blueprint)[base].templated_types
        IN /\ name = written.name
           /\ class_def.super_class = NoClass
           /\ class_def.fields = written.fields
           /\ class_def.methods = written.methods
           /\ (\A i \in DOMAIN params : params[i] \notin {a, b})
              => class_def.name = name

C17_Registered ==
    (Generic /\ error = "none")
    => \E blueprint \in Blueprints \cup {"same"} :
          /\ template_class_index = DeclaredIndex(blueprint)
          /\ \A name \in DOMAIN class_index \ {MAIN_CLASS_DEF, "U"} :
                IsWritten(blueprint, name, class_index[name])

C17_Step ==
    (Generic /\ phase = "running" /\ error' = "none")
    => /\ template_class_index' = template_class_index
       /\ \A name \in DOMAIN class_index :
              /\ name \in DOMAIN class_index'
              /\ class_index'[name] = class_index[name]

\* C17: every registered instantiation of a blueprint is, under the
\* mangled name of its ordered actual arguments, the blueprint's
\* declaration with each parameter, bare or as a component of a compound
\* type name, replaced by its actual argument, whatever was instantiated
\* before; an instantiation changes neither the stored blueprints nor a
\* class registered before.
C17_LiteralSubstitution == []C17_Registered /\ [][C17_Step]_vars

\* C17 witness: pair@int@string and pair@string@int are both registered,
\* the second one met while the first was being constructed.
C17_Witness ==
    /\ phase = "done" /\ error = "none"
    /\ DOMAIN class_index =
           {MAIN_CLASS_DEF, "U", "pair@int@string", "pair@string@int"}
    /\ class_index["pair@int@string"].fields[1].type = INT_DEF
    /\ class_index["pair@string@int"].fields[1].type = STRING_DEF
    /\ class_index["pair@int@string"].methods[1].return_type
           = "pair@string@int"
    /\ template_class_index["pair"].class_source.fields[1].type = "T"

\* C18 (as claimed): within one run a ClassDef is constructed at most once
\* for each mangled name.
C18_AsClaimed == \A name \in Instantiated : Constructions(name) <= 1

\* C19: a program in which a class declares two fields of one name or two
\* methods of one name ends with NAME_ERROR in the step that defines its
\* classes: no object exists, main is not called and nothing is printed,
\* whether or not the program would ever instantiate that class.
C19_Step ==
    \A parsed_program \in DefinitionPrograms :
        (DeclaresTwice(parsed_program) /\ Run(parsed_program))
        => /\ error' = "NAME_ERROR" /\ phase' = "done"
           /\ objs' = <<>> /\ stack' = <<>> /\ output' = <<>>

C19_Aborted ==
    (phase = "done" /\ objs = <<>>)
    => (error # "none" /\ stack = <<>> /\ output = <<>>)

C19_DuplicateMembers == [][C19_Step]_vars /\ []C19_Aborted

\* C19 witness: the run is over with NAME_ERROR after main was defined and
\* the construction of a class declared after it, which main may never
\* instantiate, was given up.
C19_Witness ==
    /\ phase = "done" /\ error = "NAME_ERROR"
    /\ constructed = <<MAIN_CLASS_DEF, "other">>
    /\ DOMAIN class_index = {MAIN_CLASS_DEF}
    /\ objs = <<>> /\ output = <<>>

\* main was instantiated from a class main that has no method main
\* without parameters, of its own or inherited
NoEntryMethod ==
    /\ objs # <<>> /\ MAIN_CLASS_DEF \in DOMAIN class_index
    /\ \A i \in DOMAIN Ancestry(class_index, MAIN_CLASS_DEF) :
          \A j \in DOMAIN class_index[Ancestry(class_index,
                                               MAIN_CLASS_DEF)[i]].methods :
             LET m == class_index[Ancestry(class_index,
                                           MAIN_CLASS_DEF)[i]].methods[j]
             IN m.method_name = MAIN_FUNC_DEF => m.formal_params # <<>>

\* a program without a class main ends with NAME_ERROR
C20_NoEntryClass ==
    \A parsed_program \in StartPrograms :
        (~Declares(parsed_program, MAIN_CLASS_DEF) /\ Run(parsed_program))
        => (error' = "NAME_ERROR" /\ phase' = "done")

\* a run whose class main has no method main without parameters ends with
\* NAME_ERROR before anything is printed
C20_NoEntryMethod ==
    /\ (NoEntryMethod /\ phase = "done")
       => (error = "NAME_ERROR" /\ output = <<>>)
    /\ (NoEntryMethod /\ phase = "running")
       => (stack = <<CallMethodFrame(1, MAIN_FUNC_DEF, <<>>, FALSE, 0)>>
           /\ output = <<>>)

\* main is called on the first object, without arguments, by the step that
\* starts a run and by no other; the step that ends the run drops what
\* the call handed back
C20_Once ==
    /\ (phase # "running" /\ phase' = "running")
       => stack' = <<CallMethodFrame(1, MAIN_FUNC_DEF, <<>>, FALSE, 0)>>
    /\ (stack = <<>> /\ stack' # <<>>) => phase # "running"
    /\ phase = "done" => (UNCHANGED vars \/ pending' = Tail(pending))
    /\ (phase = "running" /\ phase' = "done" /\ error' = "none")
       => (stack = <<>> /\ UNCHANGED <<output, objs, envs, ret>>)

\* C20 (as claimed): a program without a class main ends with NAME_ERROR,
\* a program whose class main has no method main without parameters ends
\* with NAME_ERROR, and otherwise main is called exactly once, without
\* arguments, and what it returns is dropped.
C20_AsClaimed ==
    /\ [][C20_NoEntryClass]_vars
    /\ []C20_NoEntryMethod
    /\ [][C20_Once]_vars

C20_EntryMethod == []C20_NoEntryMethod /\ [][C20_Once]_vars


\* the names of a sequence of members
NamesOf(members, key) == [i \in DOMAIN members |-> members[i][key]]

\* class_def is what the declaration of the class or blueprint that name
\* starts with, in parsed_program, gives: its superclass, its fields and
\* its methods (a blueprint's member types depend on the actual arguments)
DerivedFrom(parsed_program, name, class_def) ==
    \E k \in DOMAIN parsed_program :
        LET item == parsed_program[k]
        IN /\ item.name = Split(name)[1]
           /\ IsTemplate(item) = (Len(Split(name)) > 1)
           /\ class_def.super_class = item.inherits
           /\ NamesOf(class_def.fields, "name") = NamesOf(item.fields, "name")
           /\ NamesOf(class_def.methods, "method_name")
              = NamesOf(item.methods, "method_name")
           /\ ~IsTemplate(item)
              => class_def.methods
                 = [i \in DOMAIN item.methods |-> MethodDef(item.methods[i])]

\* a call of run on an Interpreter that has run before leaves in the three
\* registries only what the program it was handed declares
C21_Step ==
    (again' /\ pending' # pending)
    => LET parsed_program == Head(pending)
       IN /\ \A name \in DOMAIN class_index' :
                DerivedFrom(parsed_program, name, class_index'[name])
          /\ \A name \in DOMAIN template_class_index' :
                \E k \in DOMAIN parsed_program :
                    /\ IsTemplate(parsed_program[k])
                    /\ template_class_index'[name].class_source
                       = parsed_program[k]
                    /\ parsed_program[k].name = name
          /\ \A name \in DOMAIN type_manager'
                         \ (primitive_types \cup {NULL_DEF}) :
                \E k \in DOMAIN parsed_program :
                    /\ parsed_program[k].name = Split(name)[1]
                    /\ IsTemplate(parsed_program[k]) = (Len(Split(name)) > 1)
                    /\ type_manager'[name] = parsed_program[k].inherits

\* C21: when run is called again on the same Interpreter, the class
\* registry, the blueprint registry and the type registry hold, when the
\* second program starts to execute, only entries derived from the second
\* program: no class, blueprint, instantiation or type of the first run.
C21_NoCrossRunState == [][C21_Step]_vars

\* C21 witness: a second run is executing a program with blueprints that
\* declares neither other nor base, which programs run before it declare.
C21_Witness ==
    /\ again /\ phase = "running" /\ error = "none"
    /\ DOMAIN template_class_index # {}
    /\ DOMAIN class_index \cap {"other", "base"} = {}
    /\ \E name \in DOMAIN class_index : Len(Split(name)) > 1


\* C22: create_new_symbol fails, and changes nothing, exactly when the
\* symbol is a key of the innermost frame; when it is bound in outer frames
\* only the call succeeds, the binding is added to the innermost frame and
\* to no other, the outer bindings stay as they were, and once the
\* innermost frame is popped the outer binding is seen with its value.
C22_CreateNewSymbol ==
    \A symbol \in Symbols :
        LET env == envs[1]
            top == Len(env)
            made == create_new_symbol(env, symbol)
        IN /\ ~made.ok <=> symbol \in DOMAIN env[top]
           /\ ~made.ok => made.env = env
           /\ made.ok
              => /\ Len(made.env) = top
                 /\ \A i \in 1..(top - 1) : made.env[i] = env[i]
                 /\ DOMAIN made.env[top] = DOMAIN env[top] \cup {symbol}
                 /\ \A s \in DOMAIN env[top] : made.env[top][s] = env[top][s]
                 /\ top > 1
                    => \A s \in Symbols :
                          get(block_unnest(made.env), s)
                          = get(block_unnest(env), s)

\* C22 witness: a was created in the inner frame while the outer frame
\* binds a to 1.
C22_Witness ==
    /\ Len(envs) = 1 /\ Len(envs[1]) = 2
    /\ "a" \in DOMAIN envs[1][1] /\ "a" \in DOMAIN envs[1][2]
    /\ envs[1][1]["a"] = VariableDef(INT_DEF, "a", Value(INT_DEF, 1))
    /\ envs[1][2]["a"] = NoVarDef

\* the frames that bind symbol
Holders(env, symbol) == {i \in DOMAIN env : symbol \in DOMAIN env[i]}

\* C23: set changes the binding get would return, that of the innermost
\* frame that holds the name, and nothing else, and adds no key; when no
\* frame holds the name it fails and the frames are as they were.
C23_Set ==
    \A value \in Bindings :
        LET env == envs[1]
            symbol == value.name
            done == set(env, symbol, value)
            holders == Holders(env, symbol)
        IN /\ holders = {} => (~done.ok /\ done.env = env)
           /\ holders # {}
              => /\ done.ok
                 /\ get(done.env, symbol) = value
                 /\ Len(done.env) = Len(env)
                 /\ \A i \in DOMAIN env :
                       /\ DOMAIN done.env[i] = DOMAIN env[i]
                       /\ \A s \in DOMAIN env[i] :
                             done.env[i][s]
                             = IF s = symbol
                                  /\ \A j \in holders : j <= i
                               THEN value ELSE env[i][s]

\* C23 witness: a was set to 2 in the inner frame while the outer frame
\* binds a to 1, and b is in no frame.
C23_Witness ==
    /\ Len(envs) = 1 /\ Len(envs[1]) = 2
    /\ Holders(envs[1], "a") = {1, 2} /\ Holders(envs[1], "b") = {}
    /\ envs[1][1]["a"] = VariableDef(INT_DEF, "a", Value(INT_DEF, 1))
    /\ envs[1][2]["a"] = VariableDef(INT_DEF, "a", Value(INT_DEF, 2))


\* the run of PrintProgram(operands) is over
Printing(operands) ==
    /\ phase = "done" /\ ~again /\ MAIN_CLASS_DEF \in DOMAIN class_index
    /\ class_index[MAIN_CLASS_DEF].methods
       = [i \in 1..2 |-> MethodDef(PrintProgram(operands)[1].methods[i])]

\* the texts of the operands, one after the other
RECURSIVE Concatenated(_)
Concatenated(operands) ==
    IF operands = <<>> THEN ""
    ELSE Printed[Head(operands)].text \o Concatenated(Tail(operands))

\* a print whose operands are integers, strings and booleans emits one
\* line, their texts in order, booleans as true and false
C24_Primitives ==
    \A operands \in PrintOperands :
        (/\ Printing(operands)
         /\ \A i \in DOMAIN operands : Printed[operands[i]].showable)
        => (error = "none" /\ output = <<Concatenated(operands)>>)

\* a print with an operand that is an object reference, or that has no
\* value, raises TYPE_ERROR and emits nothing
C24_NotShowable ==
    \A operands \in PrintOperands :
        (/\ Printing(operands)
         /\ \E i \in DOMAIN operands : ~Printed[operands[i]].showable)
        => (error = "TYPE_ERROR" /\ output = <<>>)

\* C24 (as claimed): a print with an operand that is not of a showable
\* primitive type, an object reference in particular, raises TYPE_ERROR
\* and emits no output; any other print emits exactly one line, the texts
\* of its operands in order, booleans as true and false.
C24_AsClaimed == C24_Primitives /\ C24_NotShowable


\* the operators a type defines
OperatorsOf(type) ==
    CASE type = INT_DEF -> {"+", "-", "*", "/", "%", "==", "!=", "<", "<=",
                            ">", ">="}
      [] type = STRING_DEF -> {"+", "==", "!=", "<", "<=", ">", ">="}
      [] type = BOOL_DEF -> {"&", "|", "==", "!="}
      [] OTHER -> {"==", "!="}

\* the operands' types do not match (two classes match when one is the
\* other or its ancestor), or their type does not define the operator
Unsupported(operator, operand1, operand2) ==
    \/ operator \notin OperatorsOf(operand1.t)
    \/ IF operand1.t \in primitive_types \/ operand2.t \in primitive_types
       THEN operand1.t # operand2.t
       ELSE /\ ~is_a_subtype(type_manager, operand1.t, operand2.t)
            /\ ~is_a_subtype(type_manager, operand2.t, operand1.t)

\* the step that applies an operator to operands it does not support
\* raises TYPE_ERROR
C25_Step ==
    (/\ Running /\ Top.kind = "expr" /\ Top.pc \in {"op2", "un"}
     /\ ret.status # STATUS_EXCEPTION /\ ~IsNone(ret.value)
     /\ IF Top.pc = "un" THEN ret.value.t # BOOL_DEF
        ELSE /\ ~IsNone(Top.vals[1])
             /\ Unsupported(Top.node.op, Top.vals[1], ret.value))
    => error' = "TYPE_ERROR"

\* C25 (as claimed): a binary operator applied to operands whose types do
\* not match or whose type does not define it, and ! applied to an operand
\* that is not a boolean, raise TYPE_ERROR and never yield a value, or no
\* value, with status PROCEED.
C25_AsClaimed == [][C25_Step]_vars


\* the step evaluates me
EvaluatesMe ==
    /\ Running /\ Top.kind = "expr" /\ Top.pc = "start"
    /\ Top.node.op = "atom" /\ Top.node.tok = ME_DEF

\* self is a level of the instance whose most-derived level is anchor
RECURSIVE LevelOfInstance(_, _)
LevelOfInstance(anchor, self) ==
    \/ anchor = self
    \/ /\ objs[anchor].super_object # NoObj
       /\ LevelOfInstance(objs[anchor].super_object, self)

\* me is a reference to the most-derived level of the instance the method
\* runs in, of the class that level was instantiated from
C26_Step ==
    EvaluatesMe
    => \E anchor \in DOMAIN objs :
          /\ LevelOfInstance(anchor, Top.self)
          /\ \A o \in DOMAIN objs : objs[o].super_object # anchor
          /\ ret'.status = STATUS_PROCEED
          /\ ret'.value = Value(objs[anchor].class_def, anchor)

\* the run of a program that compares me, in a method called on x, with x
\* and with y is over: what the two comparisons gave was printed
C26_Compared ==
    \A parsed_program \in MePrograms :
        LET main == parsed_program[CHOOSE k \in DOMAIN parsed_program :
                                      parsed_program[k].name = MAIN_CLASS_DEF]
            called == main.methods[1].code.stmts[3].exprs[1].method
            made == main.methods[1].code.stmts[1].expr.class
        IN (/\ phase = "done" /\ ~again
            /\ MAIN_CLASS_DEF \in DOMAIN class_index
            /\ class_index[MAIN_CLASS_DEF].methods
               = <<MethodDef(main.methods[1])>>
            /\ ~(called = "sameb" /\ made = "A"))
           => (error = "none" /\ output = <<"true", "false">>)


\* C26 (as claimed): me, in a method running at any level of an instance,
\* is a value whose type is the name of the instance's most-derived class
\* and whose identity is the anchor, so that it compares equal to any other
\* reference to the same instance and unequal to a reference to another.
C26_AsClaimed == [][C26_Step]_vars /\ []C26_Compared

\* the same for instances of classes and of instantiations none of whose
\* actual arguments is spelled like a parameter of the blueprint
C26_Uncaptured ==
    /\ [][(\A name \in DOMAIN class_index :
              class_index[name].name \in {name, NoClass}) => C26_Step]_vars
    /\ []("pair@U@int" \notin DOMAIN class_index => C26_Compared)


\* the class of the new object level o declares its fields and their values
Defaults(o) ==
    LET declared == class_index'[objs'[o].class_def].fields
    IN /\ DOMAIN objs'[o].fields
          = {declared[i].name : i \in DOMAIN declared}
       /\ \A i \in DOMAIN declared :
             objs'[o].fields[declared[i].name] = declared[i]

\* a step changes the fields of at most one object level, and only by an
\* assignment or an input in a method running on that level; no step of a run changes
\* a class definition that is registered; an object that is made starts
\* with the fields its class declares, the objects made before it keep
\* theirs
C27_Step ==
    phase = "running"
    => /\ \A name \in DOMAIN class_index :
             class_index[name] # NoClassDef
             => (name \in DOMAIN class_index'
                 /\ class_index'[name] = class_index[name])
       /\ Len(objs') >= Len(objs)
       /\ \A o \in DOMAIN objs :
             objs'[o] # objs[o]
             => /\ Top.kind \in {"set", INPUT_STRING_DEF, INPUT_INT_DEF}
                /\ Top.self = o /\ Len(objs') = Len(objs)
       /\ \A o \in DOMAIN objs' \ DOMAIN objs : Defaults(o)

\* the run of IsolationProgram(assigned, values) is over: the object that
\* was assigned prints the last value, the two others the declared 5
C27_Printed ==
    \A assigned \in {"a", "b"}, values \in {<<"7">>, <<"1", "7">>} :
        (/\ phase = "done" /\ ~again
         /\ MAIN_CLASS_DEF \in DOMAIN class_index
         /\ class_index[MAIN_CLASS_DEF].methods
            = <<MethodDef(IsolationProgram(assigned, values)[2].methods[1])>>)
        => /\ error = "none"
           /\ output = <<IF assigned = "a" THEN "755" ELSE "575">>

\* C27: assigning a field of one instance changes neither the field of
\* that name of another instance of the class nor the default the class
\* definition holds for it, so an instance made after any assignments to
\* others starts with the declared defaults.
C27_InstanceIsolation == [][C27_Step]_vars /\ []C27_Printed

\* C27 witness: three boxes; v of the first was assigned 1 and then 7, v
\* of the second and of the third, made after the assignments, is 5.
C27_Witness ==
    /\ phase = "done" /\ output = <<"755">>
    /\ Len(objs) = 4
    /\ objs[2].fields["v"].value = Value(INT_DEF, 7)
    /\ objs[3].fields["v"].value = Value(INT_DEF, 5)
    /\ objs[4].fields["v"].value = Value(INT_DEF, 5)
    /\ class_index["box"].fields[1].value = Value(INT_DEF, 5)


\* a call binds the formals, and nothing else, in one new frame of a new
\* environment; a step changes the environment of no activation but the
\* innermost, and no method definition
C28_Step ==
    phase = "running"
    => /\ \A k \in DOMAIN envs :
             (k < Len(envs) \/ Len(envs') > Len(envs))
             => (k \in DOMAIN envs' => envs'[k] = envs[k])
       /\ Len(envs') > Len(envs)
          => /\ Len(envs') = Len(envs) + 1
             /\ Len(envs'[Len(envs')]) = 1
             /\ Top.kind = "call_method"
             /\ \E name \in DOMAIN class_index :
                   \E m \in DOMAIN class_index[name].methods :
                       LET method_def == class_index[name].methods[m]
                       IN /\ method_def.method_name = Top.method_name
                          /\ Len(method_def.formal_params) = Len(Top.vals)
                          /\ DOMAIN envs'[Len(envs')][1]
                             = {method_def.formal_params[i].name :
                                  i \in DOMAIN Top.vals}
                          /\ \A i \in DOMAIN Top.vals :
                                envs'[Len(envs')][1]
                                     [method_def.formal_params[i].name].value
                                = Top.vals[i]
       /\ \A name \in DOMAIN class_index :
             class_index[name] # NoClassDef
             => /\ name \in DOMAIN class_index'
                /\ class_index'[name].methods = class_index[name].methods

\* the run of ParamProgram(kind) is over
C28_Printed ==
    \A kind \in ParamKinds :
        (/\ phase = "done" /\ ~again
         /\ MAIN_CLASS_DEF \in DOMAIN class_index
         /\ class_index[MAIN_CLASS_DEF].methods[1]
            = MethodDef(ParamProgram(kind)[1].methods[1]))
        => CASE kind = "assign" ->
                  error = "none" /\ output = <<"7", "1">>
             [] kind = "recursive" ->
                  error = "none" /\ output = <<"2", "1", "2", "1">>
             [] OTHER -> error = "NAME_ERROR" /\ output = <<>>

\* C28: parameters are passed by value in a fresh environment per call:
\* assigning to a formal changes neither the caller's variable that gave
\* the argument, nor the formal of the method definition, nor the binding
\* of any other activation of the method, an enclosing recursive one
\* included; the callee sees none of the caller's locals.
C28_ByValue == [][C28_Step]_vars /\ []C28_Printed

\* C28 witness: the inner activation of r has assigned 7 to n; n of the
\* enclosing activation of r and x of main are still 1.
C28_Witness ==
    /\ phase = "running" /\ Len(envs) = 3 /\ Len(envs[1]) = 2
    /\ "x" \in DOMAIN envs[1][2] /\ "n" \in DOMAIN envs[2][1]
    /\ "n" \in DOMAIN envs[3][1]
    /\ envs[1][2]["x"].type = INT_DEF /\ envs[1][2]["x"].value.v = 1
    /\ envs[2][1]["n"].type = INT_DEF /\ envs[2][1]["n"].value.v = 1
    /\ envs[3][1]["n"].type = INT_DEF /\ envs[3][1]["n"].value.v = 7


\* the name a step reads or assigns, when it is neither a local nor a
\* parameter of the running activation; "" for any other step
Accessed ==
    IF ~Running THEN ""
    ELSE IF Top.kind = "expr" /\ Top.pc = "start" /\ Top.node.op = "atom"
            /\ FrameOf(Env, Top.node.tok) = 0
    THEN Top.node.tok
    ELSE IF Storing /\ FrameOf(Env, Top.node.name) = 0 THEN Top.node.name
    ELSE ""

\* other levels of the instance that level self belongs to
OtherLevels(self) ==
    {o \in DOMAIN objs :
        o # self /\ objs[o].anchor_object = objs[self].anchor_object}

\* a step that reads or assigns a name which is a field of another level
\* of the instance, and not of the level the method runs at, raises
\* NAME_ERROR; a step that assigns a field changes the table of the level
\* the method runs at and of no other
C29_Step ==
    /\ (/\ Accessed # ""
        /\ Accessed \notin DOMAIN objs[Top.self].fields
        /\ \E o \in OtherLevels(Top.self) :
               Accessed \in DOMAIN objs[o].fields)
       => (error' = "NAME_ERROR" /\ objs' = objs)
    /\ (Storing /\ Accessed \in DOMAIN objs[Top.self].fields)
       => \A o \in OtherLevels(Top.self) : objs'[o] = objs[o]

\* the run of LevelProgram(kind) is over
C29_Printed ==
    \A kind \in LevelKinds :
        (/\ phase = "done" /\ ~again
         /\ MAIN_CLASS_DEF \in DOMAIN class_index
         /\ class_index[MAIN_CLASS_DEF].methods
            = <<MethodDef(LevelProgram(kind)[3].methods[1])>>)
        => CASE kind = "seta" -> error = "none" /\ output = <<"72">>
             [] kind = "setb" -> error = "none" /\ output = <<"17">>
             [] OTHER -> error = "NAME_ERROR" /\ output = <<>>

\* C29: a method running at a level of an instance reads and assigns the
\* fields of that level only: a name that is a field of an ancestor or of
\* a descendant level alone is a NAME_ERROR there, and when two levels
\* declare a field of the same name, assigning it at one level leaves the
\* other level's field as it was.
C29_FieldsPerLevel == [][C29_Step]_vars /\ []C29_Printed

\* C29 witness: v was assigned 7 in a method of level B of an instance
\* whose level A still holds 1 for its own v.
C29_Witness ==
    /\ phase = "done" /\ output = <<"17">> /\ Len(objs) = 3
    /\ objs[2].class_def = "B" /\ objs[3].class_def = "A"
    /\ objs[2].fields["v"].value.v = 7
    /\ objs[3].fields["v"].value.v = 1


\* C30: once the classes of the program are defined, and whenever an
\* instantiation of a blueprint asked for by new, by a let-local or by a
\* class body has returned without a host error, every entry of the class
\* registry is a constructed ClassDef and none the placeholder: no object
\* was made from a placeholder and no superclass is one.
C30_NoPlaceholderSurvives ==
    (phase # "idle" /\ error = "none")
    => /\ \A name \in DOMAIN class_index :
             LET class_def == class_index[name]
             IN /\ class_def # NoClassDef
                /\ class_def.name # NoClass
                /\ class_def.super_class # NoClass
                   => /\ class_def.super_class \in DOMAIN class_index
                      /\ class_index[class_def.super_class] # NoClassDef
       /\ \A o \in DOMAIN objs :
             /\ objs[o].class_def \in DOMAIN class_index
             /\ class_index[objs[o].class_def] # NoClassDef
             /\ DOMAIN objs[o].fields
                = {class_index[objs[o].class_def].fields[i].name :
                     i \in DOMAIN class_index[objs[o].class_def].fields}

\* C30 witness: ping@string and pong@string, each named in the body of the
\* other, are both registered with their fields after new ping@string made
\* an object, in a program whose class main named ping@int in a field.
C30_Witness ==
    /\ phase = "done" /\ error = "none"
    /\ {"ping@int", "pong@int", "ping@string", "pong@string"}
       \subseteq DOMAIN class_index
    /\ Len(class_index["pong@string"].fields) = 2
    /\ Len(class_index["ping@int"].fields) = 1
    /\ \E o \in DOMAIN objs : objs[o].class_def = "ping@string"

====
